---- MODULE Spec2Model ----
(***************************************************************************)
(* hsa-tracker: the receipt service (internal/receipt/service.go) over its *)
(* record store (BoltDB) and blob store (LocalStorage).                    *)
(*                                                                         *)
(* Every call of the service is run by a caller p.  A call is cut into one *)
(* step per store or scanner operation, because the service takes no lock  *)
(* and opens no transaction around a call: each BoltDB Update/View and     *)
(* each file operation is atomic by itself, and calls of different callers *)
(* interleave between them.  Store writes and file operations may fail     *)
(* (they return an error and change nothing); a read fails only when the   *)
(* key is absent.                                                          *)
(***************************************************************************)
EXTENDS Integers, Sequences, FiniteSets, TLC

VARIABLES
    clock,           \* time.Now().UnixNano(): the next value the clock gives
    files,           \* LocalStorage: blob key -> bytes
    receipts,        \* BoltDB bucket "receipts": id -> Receipt
    reimbursements,  \* BoltDB bucket "reimbursements": id -> Reimbursement
    pc,              \* per caller: the place of its call in the service code
    loc,             \* per caller: the locals of its call
    ret,             \* what the step just taken returned to its caller, if it returned
    succeeded        \* history: ids of the reimbursements whose Create returned success

vars == <<clock, files, receipts, reimbursements, pc, loc, ret, succeeded>>

----------------------------------------------------------------------------
(* Bounds *)

\* The clock stops here: every ProcessReceipt and CreateReimbursement reads it
\* twice.  MaxClock bounds the runs of interleaved calls, MaxClockSeq the runs
\* of calls made one at a time.
MaxClock == 6
MaxClockSeq == 8
\* The longest id list handed to CreateReimbursement.
MaxIDs == 2

Procs == {"p1", "p2"}

----------------------------------------------------------------------------
(* Values *)

\* A Go nil error, and an error made by fmt.Errorf: its text, the id embedded
\* in the text ("" when none) and the text of the error it wraps with %w.
Nil == [kind |-> "", id |-> "", cause |-> ""]
Errorf(kind, id, cause) == [kind |-> kind, id |-> id, cause |-> cause]

NoRet == [op |-> "none"]
NoLoc == [op |-> "none"]

\* defaultIDGenerator.Generate: the clock's value in decimal.
Generate(t) == ToString(t)

\* An id no receipt was ever stored under.
MissingID == "0"

maxLen == 50

Letters == {"a", "b", "r", "e", "c", "i", "p", "t", "j", "g", "d", "f"}
Whitespace == {" "}
KeptChars == Letters \cup Whitespace \cup {"-", "_"}

Max(S) == CHOOSE x \in S : \A y \in S : y <= x

\* filepath.Ext: from the last dot of the last path element on.
Ext(f) ==
    LET dots == {i \in 1..Len(f) : f[i] = "." /\ \A j \in i..Len(f) : f[j] # "/"}
    IN  IF dots = {} THEN <<>> ELSE SubSeq(f, Max(dots), Len(f))

\* regexp `\s+` replaced by one space.
RECURSIVE CollapseSpaces(_)
CollapseSpaces(s) ==
    IF Len(s) = 0 THEN <<>>
    ELSE IF Len(s) >= 2 /\ s[1] \in Whitespace /\ s[2] \in Whitespace
         THEN CollapseSpaces(Tail(s))
         ELSE <<(IF s[1] \in Whitespace THEN " " ELSE s[1])>> \o CollapseSpaces(Tail(s))

RECURSIVE TrimLeft(_)
TrimLeft(s) == IF Len(s) > 0 /\ s[1] \in Whitespace THEN TrimLeft(Tail(s)) ELSE s

RECURSIVE TrimRight(_)
TrimRight(s) ==
    IF Len(s) > 0 /\ s[Len(s)] \in Whitespace THEN TrimRight(SubSeq(s, 1, Len(s) - 1)) ELSE s

TrimSpace(s) == TrimRight(TrimLeft(s))

IsKept(c) == c \in KeptChars

sanitizeFilename(filename) ==
    LET ext  == Ext(filename)
        base == SubSeq(filename, 1, Len(filename) - Len(ext))
        kept == SelectSeq(base, IsKept)
        trim == TrimSpace(CollapseSpaces(kept))
        cut  == IF Len(trim) > maxLen THEN SubSeq(trim, 1, maxLen) ELSE trim
        name == IF cut = <<>> THEN <<"r", "e", "c", "e", "i", "p", "t">> ELSE cut
    IN  name \o ext

\* A blob key made of the clean name alone.
BlobKey_NameOnly(id, cleanFilename) == <<"", cleanFilename>>

\* fmt.Sprintf("%s_%s", id, cleanFilename): an id is all digits, so the pair
\* of the id and the clean name stands for the joined string.
BlobKey(id, cleanFilename) == <<id, cleanFilename>>

\* floor(log2(num/den)) of a positive fraction: the binary exponent of the
\* float64 nearest to it.
Log2Floor(num, den) ==
    CHOOSE e \in -10..15 :
        IF e >= 0 THEN den * 2^e <= num /\ num < den * 2^(e + 1)
        ELSE den <= num * 2^(-e) /\ num * 2^(-e - 1) < den

RECURSIVE PowMod(_, _, _)
PowMod(b, n, m) == IF n = 0 THEN 1 % m ELSE (b * PowMod(b, n - 1, m)) % m

\* The amount the scanner read, t thousandths of a dollar, is the float64 d
\* nearest to t/1000: d = M * 2^-k with a 53-bit M, k = 52 - floor(log2(t/1000)),
\* and M = (t * 2^k - r) / 1000 rounded to nearest, r = (t * 2^k) mod 1000
\* (r is never 500).  Float64Remainder is r: d is below t/1000 by
\* r / (1000 * 2^k) when r < 500, and above it (or equal) otherwise.
Float64Remainder(t) ==
    LET k == 52 - Log2Floor(t, 1000)
    IN  ((t % 1000) * PowMod(2, k, 1000)) % 1000

\* d * 100 in float64, for a whole number of cents n = t/10: the exact product
\* is n - r / (10 * 2^k) when d is below t/1000.  The float64 values just
\* below n are 2^(en - 52) apart, en = floor(log2) of the values below n, and
\* the product rounds to n (a tie goes to n, whose mantissa is even) unless it
\* is more than half that step below n:  r > 5 * 2^(en - e).
ProductBelow(t) ==
    LET r  == Float64Remainder(t)
        e  == Log2Floor(t, 1000)
        en == Log2Floor(2 * (t \div 10) - 1, 2)
    IN  r < 500 /\ r > 5 * 2^(en - e)

\* int(receiptData.Amount * 100) (service.go:137), the amount the scanner
\* read held in thousandths of a dollar.  Go multiplies in float64 and the
\* conversion to int truncates toward zero.  A product that is not a whole
\* number of cents is at least a tenth of a cent from one, so the rounding
\* of d and of the product cannot move it across; a product that is a whole
\* number n of cents truncates to n - 1 when float64 leaves it below n.
\* -d * 100 is the negation of d * 100.
amountCents(thousandths) ==
    LET t == IF thousandths >= 0 THEN thousandths ELSE -thousandths
        n == IF t > 0 /\ t % 10 = 0 /\ ProductBelow(t) THEN t \div 10 - 1 ELSE t \div 10
    IN  IF thousandths >= 0 THEN n ELSE -n

\* time.Parse("2006-01-02", s): the dates the scanner gives that parse, as day numbers.
\* Today is what time.Now().Format("2006-01-02") gives (parse.go:60, 67).
Today == "d20240120"
DayNumber(s) == IF s = Today THEN 20240120 ELSE 20240115
ParsesAsDate(s) == s \in {"d20240115", Today}
ParseDate(s, now) ==
    IF ParsesAsDate(s) THEN [parsed |-> TRUE, t |-> DayNumber(s)]
    ELSE [parsed |-> FALSE, t |-> now]

----------------------------------------------------------------------------
(* Inputs *)

\* What a caller uploads: filename, bytes, declared content type.
Uploads ==
    { [filename |-> <<"r", ".", "j">>, data |-> "bytes1", contentType |-> "image/jpeg"],
      [filename |-> <<"!", " ", ".", "p">>, data |-> "bytes2", contentType |-> "application/pdf"] }

\* What the scanner answers: a ReceiptData (amount in thousandths of a dollar) or an error.
ScanData ==
    { [Title |-> "CVS", Date |-> "d20240115", Amount |-> 25999],
      [Title |-> "", Date |-> "tomorrow", Amount |-> 10000] }
ScanErrors == {"429 quota exceeded"}
ScanOutcomes ==
    { [err |-> "", data |-> d] : d \in ScanData } \cup
    { [err |-> e, data |-> CHOOSE d \in ScanData : d.Title = "CVS"] : e \in ScanErrors }

\* The ids a caller can name: those of stored receipts, and one of no receipt.
CandidateIDs == DOMAIN receipts \cup {MissingID}

RECURSIVE SeqsUpTo(_, _)
SeqsUpTo(S, n) ==
    IF n = 0 THEN {<<>>}
    ELSE LET shorter == SeqsUpTo(S, n - 1)
         IN  shorter \cup {Append(s, x) : s \in {t \in shorter : Len(t) = n - 1}, x \in S}

----------------------------------------------------------------------------
(* The stores *)

Put(f, k, v) == [x \in DOMAIN f \cup {k} |-> IF x = k THEN v ELSE f[x]]
Remove(f, k) == [x \in DOMAIN f \ {k} |-> f[x]]

\* LocalStorage.Save: writes the file and returns its name, or fails.
StorageSave(fs, key, data) ==
    { [files |-> Put(fs, key, data), path |-> key, err |-> ""],
      [files |-> fs, path |-> <<>>, err |-> "writing file"] }

\* LocalStorage.Delete: os.Remove, which fails on a file that is not there,
\* and may fail on one that is.
StorageDelete(fs, path) ==
    IF path \in DOMAIN fs
    THEN { [files |-> Remove(fs, path), err |-> ""],
           [files |-> fs, err |-> "deleting file"] }
    ELSE { [files |-> fs, err |-> "deleting file"] }

\* A SaveReceipt that is no transaction: a failed write has stored the record.
SaveReceipt_TornWrite(rs, r) ==
    { [receipts |-> Put(rs, r.ID, r), err |-> ""],
      [receipts |-> Put(rs, r.ID, r), err |-> "db error"] }

\* BoltDB.SaveReceipt: one Update transaction putting the receipt under its id.
SaveReceipt(rs, r) ==
    { [receipts |-> Put(rs, r.ID, r), err |-> ""],
      [receipts |-> rs, err |-> "db error"] }

\* BoltDB.GetReceipt: a copy of the stored receipt, or "receipt not found".
GetReceipt(rs, id) ==
    IF id \in DOMAIN rs THEN [found |-> TRUE, err |-> ""]
    ELSE [found |-> FALSE, err |-> "receipt not found"]

\* A DeleteReceipt that is no transaction: a failed delete has removed the record.
DeleteReceipt_TornDelete(rs, id) ==
    { [receipts |-> Remove(rs, id), err |-> ""],
      [receipts |-> Remove(rs, id), err |-> "db error"] }

\* BoltDB.DeleteReceipt: one Update transaction; deleting an absent key is no error.
DeleteReceipt(rs, id) ==
    { [receipts |-> Remove(rs, id), err |-> ""],
      [receipts |-> rs, err |-> "db error"] }

\* BoltDB.SaveReimbursement.
SaveReimbursement(bs, b) ==
    { [reimbursements |-> Put(bs, b.ID, b), err |-> ""],
      [reimbursements |-> bs, err |-> "db error"] }

----------------------------------------------------------------------------
(* Steps shared by the calls *)

\* The call of p returns r; its locals are dropped.
Return(p, r) ==
    /\ pc' = [pc EXCEPT ![p] = "idle"]
    /\ loc' = [loc EXCEPT ![p] = NoLoc]
    /\ ret' = r @@ [proc |-> p]

\* The call of p goes on at `at` with locals l.
Goto(p, at, l) ==
    /\ pc' = [pc EXCEPT ![p] = at]
    /\ loc' = [loc EXCEPT ![p] = l]
    /\ ret' = NoRet

Init ==
    /\ clock = 1
    /\ files = <<>>
    /\ receipts = <<>>
    /\ reimbursements = <<>>
    /\ pc = [p \in Procs |-> "idle"]
    /\ loc = [p \in Procs |-> NoLoc]
    /\ ret = NoRet
    /\ succeeded = {}

stores == <<files, receipts, reimbursements>>

----------------------------------------------------------------------------
(* ProcessReceipt(filename, data, contentType), service.go:101 *)

NilReceipt == [ID |-> ""]

\* The Receipt built from the scanner's data (service.go:130-149).
NewReceipt(id, data, now, savedPath, contentType) ==
    [ ID              |-> id,
      Title           |-> data.Title,
      Date            |-> ParseDate(data.Date, now),
      Amount          |-> amountCents(data.Amount),
      Filename        |-> savedPath,
      ContentType     |-> contentType,
      ReimbursementID |-> "",
      CreatedAt       |-> now,
      UpdatedAt       |-> now ]

\* What ProcessReceipt returns, with what the call did: the id it generated,
\* the blob key it stored under, the scanner's error and the error of the
\* compensating blob delete ("" when there was none).
ProcessResult(id, key, receipt, err, scanErr, delErr) ==
    [ op |-> "ProcessReceipt", id |-> id, key |-> key, receipt |-> receipt,
      err |-> err, scanErr |-> scanErr, delErr |-> delErr ]

\* A ProcessReceipt that returns the error of the compensating delete when
\* there is one.
ScanFailure_DeleteErrorWins(scanErr, delErr) ==
    IF delErr # "" THEN Errorf("cleaning up file", "", delErr)
    ELSE Errorf("scanning receipt", "", scanErr)

\* A ProcessReceipt that reports a failed scan without the scanner's error.
ScanFailure_Opaque(scanErr, delErr) == Errorf("scanning receipt", "", "")

\* The error returned after a failed scan and the compensating delete
\* (service.go:126-127): the delete's own error is dropped.
ScanFailure(scanErr, delErr) == Errorf("scanning receipt", "", scanErr)

\* A ProcessReceipt that hands the bytes to the scanner whether or not the
\* blob was stored.
ProcessReceipt_Save_ScanAnyway(p, u, limit) ==
    /\ pc[p] = "idle"
    /\ clock + 1 <= limit
    /\ LET id  == Generate(clock)
           now == clock + 1
           key == BlobKey(id, sanitizeFilename(u.filename))
       IN  \E o \in StorageSave(files, key, u.data) :
             /\ clock' = clock + 2
             /\ files' = o.files
             /\ Goto(p, "pr_scan",
                     [ op |-> "ProcessReceipt", u |-> u, id |-> id, now |-> now,
                       savedPath |-> key ])
    /\ UNCHANGED <<receipts, reimbursements, succeeded>>

\* service.go:103-113: generate the id, read the time, store the original bytes.
ProcessReceipt_Save(p, u, limit) ==
    /\ pc[p] = "idle"
    /\ clock + 1 <= limit
    /\ LET id  == Generate(clock)
           now == clock + 1
           key == BlobKey(id, sanitizeFilename(u.filename))
       IN  \E o \in StorageSave(files, key, u.data) :
             /\ clock' = clock + 2
             /\ files' = o.files
             /\ IF o.err # ""
                THEN Return(p, ProcessResult(id, key, NilReceipt,
                                             Errorf("saving file", "", o.err), "", ""))
                ELSE Goto(p, "pr_scan",
                          [ op |-> "ProcessReceipt", u |-> u, id |-> id, now |-> now,
                            savedPath |-> o.path ])
    /\ UNCHANGED <<receipts, reimbursements, succeeded>>

\* service.go:116-149: the scanner answers.
ProcessReceipt_Scan(p, o) ==
    /\ pc[p] = "pr_scan"
    /\   LET l == loc[p]
         IN  IF o.err # ""
             THEN Goto(p, "pr_scanfailed", [scanErr |-> o.err] @@ l)
             ELSE Goto(p, "pr_dbsave",
                       [receiptData |-> o.data,
                        receipt |-> NewReceipt(l.id, o.data, l.now, l.savedPath,
                                               l.u.contentType)] @@ l)
    /\ UNCHANGED <<clock, stores, succeeded>>

\* A ProcessReceipt that returns the scan error without deleting the blob.
ProcessReceipt_ScanFailed_NoDelete(p) ==
    /\ pc[p] = "pr_scanfailed"
    /\ LET l == loc[p]
       IN  Return(p, ProcessResult(l.id, l.savedPath, NilReceipt,
                                   Errorf("scanning receipt", "", l.scanErr), l.scanErr, ""))
    /\ UNCHANGED <<clock, stores, succeeded>>

\* service.go:117-128: the scan failed; delete the stored blob, return the scan error.
ProcessReceipt_ScanFailed(p) ==
    /\ pc[p] = "pr_scanfailed"
    /\ LET l == loc[p]
       IN  \E o \in StorageDelete(files, l.savedPath) :
             /\ files' = o.files
             /\ Return(p, ProcessResult(l.id, l.savedPath, NilReceipt,
                                        ScanFailure(l.scanErr, o.err), l.scanErr, o.err))
    /\ UNCHANGED <<clock, receipts, reimbursements, succeeded>>

\* service.go:152-158: save the receipt to the database.
ProcessReceipt_SaveDB(p) ==
    /\ pc[p] = "pr_dbsave"
    /\ LET l == loc[p]
       IN  \E o \in SaveReceipt(receipts, l.receipt) :
             /\ receipts' = o.receipts
             /\ IF o.err # ""
                THEN Goto(p, "pr_dbfailed", [dbErr |-> o.err] @@ l)
                ELSE Return(p, ProcessResult(l.id, l.savedPath, l.receipt, Nil, "", ""))
    /\ UNCHANGED <<clock, files, reimbursements, succeeded>>

\* A ProcessReceipt that returns the error of the database save without
\* deleting the blob.
ProcessReceipt_SaveDBFailed_NoDelete(p) ==
    /\ pc[p] = "pr_dbfailed"
    /\ LET l == loc[p]
       IN  Return(p, ProcessResult(l.id, l.savedPath, NilReceipt,
                                   Errorf("saving receipt to database", "", l.dbErr),
                                   "", ""))
    /\ UNCHANGED <<clock, stores, succeeded>>

\* service.go:153-155: the database save failed; delete the stored blob.
ProcessReceipt_SaveDBFailed(p) ==
    /\ pc[p] = "pr_dbfailed"
    /\ LET l == loc[p]
       IN  \E o \in StorageDelete(files, l.savedPath) :
             /\ files' = o.files
             /\ Return(p, ProcessResult(l.id, l.savedPath, NilReceipt,
                                        Errorf("saving receipt to database", "", l.dbErr),
                                        "", o.err))
    /\ UNCHANGED <<clock, receipts, reimbursements, succeeded>>

----------------------------------------------------------------------------
(* DeleteReceipt(id), service.go:180 *)

DeleteResult(id, err, fileErr) ==
    [op |-> "DeleteReceipt", id |-> id, err |-> err, fileErr |-> fileErr]

\* A DeleteReceipt that takes a missing receipt for deleted: it removes the
\* blobs stored under the id and returns no error.
DeleteReceipt_Get_IgnoreMissing(p, id) ==
    /\ pc[p] = "idle"
    /\ IF id \notin DOMAIN receipts
       THEN /\ files' = [k \in {x \in DOMAIN files : x[1] # id} |-> files[k]]
            /\ Return(p, DeleteResult(id, Nil, ""))
       ELSE /\ files' = files
            /\ Goto(p, "dr_file", [op |-> "DeleteReceipt", id |-> id, receipt |-> receipts[id]])
    /\ UNCHANGED <<clock, receipts, reimbursements, succeeded>>

\* service.go:181-184: read the receipt.
DeleteReceipt_Get(p, id) ==
    /\ pc[p] = "idle"
    /\ LET g == GetReceipt(receipts, id)
       IN  IF ~g.found
           THEN Return(p, DeleteResult(id, Errorf("getting receipt for deletion", "", g.err), ""))
           ELSE Goto(p, "dr_file", [op |-> "DeleteReceipt", id |-> id, receipt |-> receipts[id]])
    /\ UNCHANGED <<clock, stores, succeeded>>

\* A DeleteReceipt that gives up when the blob cannot be deleted.
DeleteReceipt_File_Fatal(p) ==
    /\ pc[p] = "dr_file"
    /\ LET l == loc[p]
       IN  \E o \in StorageDelete(files, l.receipt.Filename) :
             /\ files' = o.files
             /\ IF o.err # ""
                THEN Return(p, DeleteResult(l.id, Errorf("deleting file", "", o.err), o.err))
                ELSE Goto(p, "dr_db", [fileErr |-> o.err] @@ l)
    /\ UNCHANGED <<clock, receipts, reimbursements, succeeded>>

\* service.go:187-190: delete the blob; a failure is logged and the call goes on.
DeleteReceipt_File(p) ==
    /\ pc[p] = "dr_file"
    /\ LET l == loc[p]
       IN  \E o \in StorageDelete(files, l.receipt.Filename) :
             /\ files' = o.files
             /\ Goto(p, "dr_db", [fileErr |-> o.err] @@ l)
    /\ UNCHANGED <<clock, receipts, reimbursements, succeeded>>

\* service.go:193-196: delete the record.
DeleteReceipt_DB(p) ==
    /\ pc[p] = "dr_db"
    /\ LET l == loc[p]
       IN  \E o \in DeleteReceipt(receipts, l.id) :
             /\ receipts' = o.receipts
             /\ Return(p, DeleteResult(l.id,
                    IF o.err # "" THEN Errorf("deleting receipt from database", "", o.err)
                    ELSE Nil, l.fileErr))
    /\ UNCHANGED <<clock, files, reimbursements, succeeded>>

----------------------------------------------------------------------------
(* CreateReimbursement(receiptIDs), service.go:215 *)

\* What CreateReimbursement returns, with what the call did: the ids it was
\* given, the id it generated ("" when it generated none), the time it read,
\* the member (1-based) at which it stopped (0: at none), and the two buckets
\* as they were when the call began.
CreateResult(ids, id, now, err, k, before) ==
    [ op |-> "CreateReimbursement", ids |-> ids, id |-> id, now |-> now,
      err |-> err, k |-> k, before |-> before ]

\* A Reimbursement record built without its members.
NewReimbursement_NoMembers(id, ids, totalAmount, now) ==
    [ ID |-> id, ReceiptIDs |-> <<>>, TotalAmount |-> totalAmount,
      CreatedAt |-> now, UpdatedAt |-> now ]

\* A Reimbursement record that lists an id given twice only once.
NewReimbursement_DistinctIDs(id, ids, totalAmount, now) ==
    [ ID |-> id,
      ReceiptIDs |-> IF Len(ids) = 2 /\ ids[1] = ids[2] THEN <<ids[1]>> ELSE ids,
      TotalAmount |-> totalAmount, CreatedAt |-> now, UpdatedAt |-> now ]

\* service.go:237-243.
NewReimbursement(id, ids, totalAmount, now) ==
    [ ID |-> id, ReceiptIDs |-> ids, TotalAmount |-> totalAmount,
      CreatedAt |-> now, UpdatedAt |-> now ]

\* A first loop left after its first turn.
AfterValidated_FirstOnly(i, n) == "cr_save"

\* service.go:225-234: where the call goes after member i of n passed the checks
\* of the first loop.
AfterValidated(i, n) == IF i < n THEN "cr_validate" ELSE "cr_save"

\* A first loop that does not look at ReimbursementID.
IsReimbursed_Never(receipt) == FALSE

\* service.go:230: the receipt is already part of a reimbursement.
IsReimbursed(receipt) == receipt.ReimbursementID # ""

\* A second loop that refreshes UpdatedAt and forgets the ReimbursementID.
Marked_StampOnly(receipt, id, now) == [receipt EXCEPT !.UpdatedAt = now]

\* service.go:256-257: the receipt as the second loop writes it back.
Marked(receipt, id, now) ==
    [receipt EXCEPT !.ReimbursementID = id, !.UpdatedAt = now]

\* A CreateReimbursement without the check of the list's length: it stores a
\* Reimbursement of no receipts.
CreateReimbursement_Empty_NoCheck(p) ==
    /\ pc[p] = "idle"
    /\ clock + 1 <= MaxClock
    /\ clock' = clock + 2
    /\ reimbursements' = Put(reimbursements, Generate(clock + 1),
                             [ ID |-> Generate(clock + 1), ReceiptIDs |-> <<>>,
                               TotalAmount |-> 0, CreatedAt |-> clock, UpdatedAt |-> clock ])
    /\ Return(p, CreateResult(<<>>, Generate(clock + 1), clock, Nil, 0,
                              [receipts |-> receipts, reimbursements |-> reimbursements]))
    /\ UNCHANGED <<files, receipts, succeeded>>

\* service.go:216-218: an empty list is rejected at once.
CreateReimbursement_Empty(p) ==
    /\ pc[p] = "idle"
    /\ Return(p, CreateResult(<<>>, "", 0, Errorf("at least one receipt is required", "", ""),
                              0, [receipts |-> receipts, reimbursements |-> reimbursements]))
    /\ UNCHANGED <<clock, stores, succeeded>>

\* service.go:220-221: read the time, generate the id.
CreateReimbursement_Begin(p, ids, limit) ==
    /\ pc[p] = "idle"
    /\ Len(ids) > 0
    /\ clock + 1 <= limit
    /\ clock' = clock + 2
    /\ Goto(p, "cr_validate",
            [ op |-> "CreateReimbursement", ids |-> ids, now |-> clock,
              id |-> Generate(clock + 1), i |-> 1, totalAmount |-> 0,
              before |-> [receipts |-> receipts, reimbursements |-> reimbursements] ])
    /\ UNCHANGED <<stores, succeeded>>

\* A first loop that goes on after a failure and reports the last failing id
\* of the list.
CreateReimbursement_Validate_LastFailure(p) ==
    /\ pc[p] = "cr_validate"
    /\ LET l   == loc[p]
           bad == {j \in 1..Len(l.ids) :
                     \/ ~GetReceipt(receipts, l.ids[j]).found
                     \/ IsReimbursed(receipts[l.ids[j]])}
           k   == CHOOSE j \in bad : \A m \in bad : m <= j
       IN  IF bad = {}
           THEN Goto(p, AfterValidated(l.i, Len(l.ids)),
                     [l EXCEPT !.i = l.i + 1,
                               !.totalAmount = @ + receipts[l.ids[l.i]].Amount])
           ELSE IF ~GetReceipt(receipts, l.ids[k]).found
           THEN Return(p, CreateResult(l.ids, l.id, l.now,
                                       Errorf("getting receipt", l.ids[k],
                                              GetReceipt(receipts, l.ids[k]).err),
                                       k, l.before))
           ELSE Return(p, CreateResult(l.ids, l.id, l.now,
                                       Errorf("receipt is already reimbursed", l.ids[k], ""),
                                       k, l.before))
    /\ UNCHANGED <<clock, stores, succeeded>>

\* service.go:225-234: one turn of the first loop.
CreateReimbursement_Validate(p) ==
    /\ pc[p] = "cr_validate"
    /\ LET l   == loc[p]
           rid == l.ids[l.i]
           g   == GetReceipt(receipts, rid)
       IN  IF ~g.found
           THEN Return(p, CreateResult(l.ids, l.id, l.now,
                                       Errorf("getting receipt", rid, g.err), l.i, l.before))
           ELSE IF IsReimbursed(receipts[rid])
           THEN Return(p, CreateResult(l.ids, l.id, l.now,
                                       Errorf("receipt is already reimbursed", rid, ""),
                                       l.i, l.before))
           ELSE Goto(p, AfterValidated(l.i, Len(l.ids)),
                     [l EXCEPT !.i = l.i + 1,
                               !.totalAmount = @ + receipts[rid].Amount])
    /\ UNCHANGED <<clock, stores, succeeded>>

\* A CreateReimbursement that goes on to its second loop without having
\* written the Reimbursement record.
CreateReimbursement_Save_NoWrite(p) ==
    /\ pc[p] = "cr_save"
    /\ Goto(p, "cr_markget", [loc[p] EXCEPT !.i = 1])
    /\ UNCHANGED <<clock, stores, succeeded>>

\* service.go:237-248: write the Reimbursement record.
CreateReimbursement_Save(p) ==
    /\ pc[p] = "cr_save"
    /\ LET l == loc[p]
       IN  \E o \in SaveReimbursement(reimbursements,
                                      NewReimbursement(l.id, l.ids, l.totalAmount, l.now)) :
             /\ reimbursements' = o.reimbursements
             /\ IF o.err # ""
                THEN Return(p, CreateResult(l.ids, l.id, l.now,
                                            Errorf("saving reimbursement", "", o.err),
                                            0, l.before))
                ELSE Goto(p, "cr_markget", [l EXCEPT !.i = 1])
    /\ UNCHANGED <<clock, files, receipts, succeeded>>

\* service.go:252-257: one turn of the second loop, the read.
CreateReimbursement_MarkGet(p) ==
    /\ pc[p] = "cr_markget"
    /\ LET l   == loc[p]
           rid == l.ids[l.i]
           g   == GetReceipt(receipts, rid)
       IN  IF ~g.found
           THEN Return(p, CreateResult(l.ids, l.id, l.now,
                                       Errorf("getting receipt for update", rid, g.err),
                                       l.i, l.before))
           ELSE Goto(p, "cr_marksave",
                     [receipt |-> Marked(receipts[rid], l.id, l.now)] @@ l)
    /\ UNCHANGED <<clock, stores, succeeded>>

\* service.go:258-263: one turn of the second loop, the write; after the last, return.
CreateReimbursement_MarkSave(p) ==
    /\ pc[p] = "cr_marksave"
    /\ LET l    == loc[p]
           rid  == l.ids[l.i]
           next == [x \in DOMAIN l \ {"receipt"} |-> l[x]]
       IN  \E o \in SaveReceipt(receipts, l.receipt) :
             /\ receipts' = o.receipts
             /\ IF o.err # ""
                THEN /\ Return(p, CreateResult(l.ids, l.id, l.now,
                                               Errorf("updating receipt", rid, o.err),
                                               l.i, l.before))
                     /\ UNCHANGED succeeded
                ELSE IF l.i < Len(l.ids)
                THEN /\ Goto(p, "cr_markget", [next EXCEPT !.i = l.i + 1])
                     /\ UNCHANGED succeeded
                ELSE /\ Return(p, CreateResult(l.ids, l.id, l.now, Nil, 0, l.before))
                     /\ succeeded' = succeeded \cup {l.id}
    /\ UNCHANGED <<clock, files, reimbursements>>

----------------------------------------------------------------------------
(* Specifications *)

\* One step of a call of caller p, the uploads drawn from `uploads`, the
\* scanner's answers from `outcomes`, the clock read up to `limit`.
Step(p, uploads, outcomes, limit) ==
    \/ \E u \in uploads : ProcessReceipt_Save(p, u, limit)
    \/ \E o \in outcomes : ProcessReceipt_Scan(p, o)
    \/ ProcessReceipt_ScanFailed(p)
    \/ ProcessReceipt_SaveDB(p)
    \/ ProcessReceipt_SaveDBFailed(p)
    \/ \E id \in CandidateIDs : DeleteReceipt_Get(p, id)
    \/ DeleteReceipt_File(p)
    \/ DeleteReceipt_DB(p)
    \/ CreateReimbursement_Empty(p)
    \/ \E ids \in SeqsUpTo(CandidateIDs, MaxIDs) : CreateReimbursement_Begin(p, ids, limit)
    \/ CreateReimbursement_Validate(p)
    \/ CreateReimbursement_Save(p)
    \/ CreateReimbursement_MarkGet(p)
    \/ CreateReimbursement_MarkSave(p)

\* Calls of all callers, interleaved; one upload and two answers of the scanner
\* (a receipt, an error) are enough to tell the interleavings apart.
RaceUploads == {u \in Uploads : u.data = "bytes1"}
RaceOutcomes == {o \in ScanOutcomes : o.data.Title = "CVS"}
Next == \E p \in Procs : Step(p, RaceUploads, RaceOutcomes, MaxClock)

Spec == Init /\ [][Next]_vars

\* Calls one at a time: one caller, whose next call begins when its last returned.
SeqProcs == {"p1"}
NextSeq == \E p \in SeqProcs : Step(p, RaceUploads, ScanOutcomes, MaxClockSeq)

SpecSeq == Init /\ [][NextSeq]_vars

----------------------------------------------------------------------------
(* CreateReceipt(receipt): the commit of a reviewed draft.  The service code
   at hand has no such method (its tests and the upload page call it); it is
   modelled from the specification: stamp CreatedAt and UpdatedAt with the
   current time and save the receipt. *)

CreateReceiptResult(receipt, err) ==
    [op |-> "CreateReceipt", given |-> receipt, err |-> err]

\* The receipts a caller hands in: a stored one as it is or with the title
\* and amount edited, or the draft of a receipt that is not stored.
UnstoredDraft ==
    [ ID |-> "9", Title |-> "CVS", Date |-> [parsed |-> TRUE, t |-> 20240115],
      Amount |-> 2599, Filename |-> BlobKey("9", <<"r", ".", "j">>),
      ContentType |-> "image/jpeg", ReimbursementID |-> "", CreatedAt |-> 0, UpdatedAt |-> 0 ]
Drafts ==
    {UnstoredDraft} \cup {receipts[id] : id \in DOMAIN receipts}
    \cup {[receipts[id] EXCEPT !.Title = "edited", !.Amount = 100] : id \in DOMAIN receipts}

CreateReceipt(p, receipt) ==
    /\ pc[p] = "idle"
    /\ clock <= MaxClock
    /\ clock' = clock + 1
    /\ \E o \in SaveReceipt(receipts, [receipt EXCEPT !.CreatedAt = clock, !.UpdatedAt = clock]) :
         /\ receipts' = o.receipts
         /\ Return(p, CreateReceiptResult(receipt,
                IF o.err # "" THEN Errorf("saving receipt", "", o.err) ELSE Nil))
    /\ UNCHANGED <<files, reimbursements, succeeded>>

\* The service with the commit of drafts, calls one at a time.
NextFinalize ==
    \E p \in SeqProcs :
        \/ Step(p, RaceUploads, RaceOutcomes, MaxClock)
        \/ \E r \in Drafts : CreateReceipt(p, r)

SpecFinalize == Init /\ [][NextFinalize]_vars

----------------------------------------------------------------------------
(* GetReimbursementWithReceipts(id), service.go:276 *)

\* BoltDB.GetReimbursement: the stored reimbursement, or "reimbursement not found".
GetReimbursement(bs, id) ==
    IF id \in DOMAIN bs THEN [found |-> TRUE, err |-> ""]
    ELSE [found |-> FALSE, err |-> "reimbursement not found"]

NilReimbursement == [ID |-> ""]

\* What GetReimbursementWithReceipts returns, with the id it was asked for and
\* the place in the list where it stopped.
GetWithReceiptsResult(id, reimbursement, rs, err, k) ==
    [ op |-> "GetReimbursementWithReceipts", id |-> id, reimbursement |-> reimbursement,
      receipts |-> rs, err |-> err, k |-> k ]

\* The ids a caller can name: those of stored reimbursements, and one of none.
CandidateReimbursementIDs == DOMAIN reimbursements \cup {MissingID}

\* service.go:277-283: read the reimbursement.
GetReimbursementWithReceipts_Get(p, id) ==
    /\ pc[p] = "idle"
    /\ LET g == GetReimbursement(reimbursements, id)
       IN  IF ~g.found
           THEN Return(p, GetWithReceiptsResult(id, NilReimbursement, <<>>,
                              Errorf("getting reimbursement", "", g.err), 0))
           ELSE IF Len(reimbursements[id].ReceiptIDs) = 0
           THEN Return(p, GetWithReceiptsResult(id, reimbursements[id], <<>>, Nil, 0))
           ELSE Goto(p, "gw_receipt",
                     [ op |-> "GetReimbursementWithReceipts", id |-> id,
                       reimbursement |-> reimbursements[id], i |-> 1, receipts |-> <<>> ])
    /\ UNCHANGED <<clock, stores, succeeded>>

\* A loop that leaves out the receipts it does not find.
GetReimbursementWithReceipts_Receipt_SkipMissing(p) ==
    /\ pc[p] = "gw_receipt"
    /\ LET l   == loc[p]
           rid == l.reimbursement.ReceiptIDs[l.i]
           rs  == IF rid \in DOMAIN receipts THEN Append(l.receipts, receipts[rid])
                  ELSE l.receipts
       IN  IF l.i = Len(l.reimbursement.ReceiptIDs)
           THEN Return(p, GetWithReceiptsResult(l.id, l.reimbursement, rs, Nil, l.i))
           ELSE Goto(p, "gw_receipt", [l EXCEPT !.i = l.i + 1, !.receipts = rs])
    /\ UNCHANGED <<clock, stores, succeeded>>

\* service.go:284-292: one turn of the loop over the member ids.
GetReimbursementWithReceipts_Receipt(p) ==
    /\ pc[p] = "gw_receipt"
    /\ LET l   == loc[p]
           rid == l.reimbursement.ReceiptIDs[l.i]
           g   == GetReceipt(receipts, rid)
       IN  IF ~g.found
           THEN Return(p, GetWithReceiptsResult(l.id, NilReimbursement, <<>>,
                              Errorf("getting receipt", rid, g.err), l.i))
           ELSE LET rs == Append(l.receipts, receipts[rid])
                IN  IF l.i = Len(l.reimbursement.ReceiptIDs)
                    THEN Return(p, GetWithReceiptsResult(l.id, l.reimbursement, rs, Nil, l.i))
                    ELSE Goto(p, "gw_receipt", [l EXCEPT !.i = l.i + 1, !.receipts = rs])
    /\ UNCHANGED <<clock, stores, succeeded>>

\* The service with this read, calls one at a time.
NextRead ==
    \E p \in SeqProcs :
        \/ Step(p, RaceUploads, RaceOutcomes, MaxClock)
        \/ \E id \in CandidateReimbursementIDs : GetReimbursementWithReceipts_Get(p, id)
        \/ GetReimbursementWithReceipts_Receipt(p)

SpecRead == Init /\ [][NextRead]_vars

----------------------------------------------------------------------------
(* The ids of defaultIDGenerator.  Generate (service.go:27-29) prints
   time.Now().UnixNano(), a reading of the wall clock: nothing makes two
   readings differ.  Spec, SpecSeq, SpecFinalize and SpecRead take the ids as
   IDGenerator promises them (service.go:14, "generates unique IDs"): there
   the clock advances at every reading.  Here the wall clock may also,
   between two calls, not have advanced since the last call read it (a clock
   of coarse ticks, or one that was set back), so that the next call reads
   what an earlier call read. *)

WallClockRepeats ==
    /\ \A p \in SeqProcs : pc[p] = "idle"
    /\ clock > 2
    /\ clock' = clock - 2
    /\ ret' = NoRet
    /\ UNCHANGED <<stores, pc, loc, succeeded>>

\* The clock stops here in the runs in which it may repeat.
MaxWallClock == 4

NextWallClock ==
    \/ \E p \in SeqProcs : Step(p, RaceUploads, RaceOutcomes, MaxWallClock)
    \/ WallClockRepeats

SpecWallClock == Init /\ [][NextWallClock]_vars

----------------------------------------------------------------------------
(* Properties *)

Range(s) == {s[i] : i \in 1..Len(s)}

\* What CreateReimbursement adds up: the amounts of the listed receipts, in rs.
RECURSIVE SumAmounts(_, _)
SumAmounts(ids, rs) ==
    IF ids = <<>> THEN 0 ELSE rs[Head(ids)].Amount + SumAmounts(Tail(ids), rs)

\* The stored reimbursements that list receipt id.
Claiming(id) == {b \in DOMAIN reimbursements : id \in Range(reimbursements[b].ReceiptIDs)}

\* I2: a stored receipt is tagged exactly when one stored reimbursement lists it.
I2 ==
    \A id \in DOMAIN receipts :
        (receipts[id].ReimbursementID # "") <=> (Cardinality(Claiming(id)) = 1)

\* C1: after ProcessReceipt returns a receipt, no record is stored under its
\* id (none until the draft is committed): ProcessReceipt writes no Receipt.
C1_DraftNotPersisted ==
    (ret.op = "ProcessReceipt" /\ ret.err = Nil) => ret.receipt.ID \notin DOMAIN receipts

C3_Created ==
    (ret.op = "CreateReimbursement" /\ ret.err = Nil) =>
        /\ ret.id \in DOMAIN reimbursements
        /\ reimbursements[ret.id].ReceiptIDs = ret.ids
        /\ reimbursements[ret.id].TotalAmount = SumAmounts(ret.ids, ret.before.receipts)
        /\ \A id \in Range(ret.ids) :
             id \in DOMAIN receipts /\ receipts[id].ReimbursementID = ret.id

C3_TotalKept ==
    \A b \in DOMAIN reimbursements :
        /\ b \in DOMAIN reimbursements'
        /\ reimbursements'[b].TotalAmount = reimbursements[b].TotalAmount

C3_TotalAndTagging == []C3_Created /\ [][C3_TotalKept]_vars

\* Receipts of 1000 and 2599 cents reimbursed together: 3599.
C3_Witness ==
    /\ ret.op = "CreateReimbursement"
    /\ ret.err = Nil
    /\ Len(ret.ids) = 2
    /\ ret.ids[1] # ret.ids[2]
    /\ {receipts[id].Amount : id \in Range(ret.ids)} = {1000, 2599}
    /\ reimbursements[ret.id].TotalAmount = 3599

C5_NoLock ==
    \A p \in Procs : pc[p] # "idle" => ENABLED Step(p, RaceUploads, RaceOutcomes, MaxClock)

C5_DoubleBooking ==
    /\ C5_NoLock
    /\ \A b1, b2 \in succeeded :
         b1 # b2 =>
           /\ {b1, b2} \subseteq DOMAIN reimbursements
           /\ \A id \in Range(reimbursements[b1].ReceiptIDs)
                        \cap Range(reimbursements[b2].ReceiptIDs) :
                id \in DOMAIN receipts =>
                  /\ receipts[id].ReimbursementID \in {b1, b2}
                  /\ {b1, b2} \subseteq Claiming(id)
                  /\ ~I2

\* Both calls passed the check of the first loop before either wrote anything.
C5_BothPassedCheck ==
    /\ \A p \in Procs : pc[p] = "cr_save"
    /\ \E id \in DOMAIN receipts : \A p \in Procs : id \in Range(loc[p].ids)

\* Both calls have returned success and the receipt is listed twice.
C5_Witness ==
    /\ ret.op = "CreateReimbursement"
    /\ ret.err = Nil
    /\ \E b1, b2 \in succeeded :
         /\ b1 # b2
         /\ \E id \in DOMAIN receipts : Cardinality(Claiming(id)) = 2 /\ {b1, b2} = Claiming(id)

\* C6: a CreateReimbursement rejected for a missing or an already reimbursed
\* id has written nothing: both buckets are as they were when the call began.
RejectionKinds ==
    {"getting receipt", "receipt is already reimbursed", "getting receipt for update"}

C6_RejectionWritesNothing ==
    (ret.op = "CreateReimbursement" /\ ret.err.kind \in RejectionKinds) =>
        /\ receipts = ret.before.receipts
        /\ reimbursements = ret.before.reimbursements

\* The offending id comes second in the list, after an id that passed.
C6_Witness ==
    /\ ret.op = "CreateReimbursement"
    /\ ret.err.kind = "receipt is already reimbursed"
    /\ ret.k = 2
    /\ ret.before.reimbursements # <<>>
    /\ ret.ids[1] \in DOMAIN receipts
    /\ receipts[ret.ids[1]].ReimbursementID = ""

\* The receipts listed by a Reimbursement whose Create returned success before
\* the call that returned r.
PriorOK(r) ==
    UNION {Range(reimbursements[b].ReceiptIDs) : b \in succeeded \ {r.id}}

AlreadyReimbursed(id) == Errorf("receipt is already reimbursed", id, "")

\* C7, as claimed: after a successful Create listing A, any later Create whose
\* list contains A fails with the already-reimbursed error naming A, and A is
\* left as the first call set it.
C7_AlwaysNamesA ==
    ret.op = "CreateReimbursement" =>
        \A id \in Range(ret.ids) \cap PriorOK(ret) :
            /\ ret.err = AlreadyReimbursed(id)
            /\ id \in DOMAIN ret.before.receipts =>
                 id \in DOMAIN receipts /\ receipts[id] = ret.before.receipts[id]

\* In the list of the call that returned r, no id before the first occurrence
\* of id was missing or reimbursed when the call began, and id was stored.
FirstOffending(r, id) ==
    /\ id \in DOMAIN r.before.receipts
    /\ \A j \in 1..Len(r.ids) :
         (\A m \in 1..j : r.ids[m] # id) =>
            /\ r.ids[j] \in DOMAIN r.before.receipts
            /\ r.before.receipts[r.ids[j]].ReimbursementID = ""

\* C7, amended: after a successful Create listing A, any later Create whose
\* list contains A fails; the error is the already-reimbursed error naming A
\* when A is still stored and no earlier id of the list is missing or
\* reimbursed; and as long as A is stored it carries the id and the time stamp
\* of the successful call.
C7_RejectedAndUntouched ==
    /\ \A b \in succeeded :
         \A id \in Range(reimbursements[b].ReceiptIDs) \cap DOMAIN receipts :
            /\ receipts[id].ReimbursementID = b
            /\ receipts[id].UpdatedAt = reimbursements[b].UpdatedAt
    /\ ret.op = "CreateReimbursement" =>
         \A id \in Range(ret.ids) \cap PriorOK(ret) :
            /\ ret.err # Nil
            /\ FirstOffending(ret, id) => ret.err = AlreadyReimbursed(id)

\* Create([A]) a second time.
C7_Witness ==
    /\ ret.op = "CreateReimbursement"
    /\ Len(ret.ids) = 1
    /\ ret.ids[1] \in PriorOK(ret)
    /\ ret.err = AlreadyReimbursed(ret.ids[1])
    /\ receipts[ret.ids[1]].UpdatedAt < ret.now

\* C8, as claimed: when the write of member k fails in the second loop, Create
\* returns that error, the Reimbursement stays stored with the whole list, the
\* members before k are tagged with its id and the members from k on are untagged.
C8_PartialFailure ==
    (ret.op = "CreateReimbursement" /\ ret.err.kind = "updating receipt") =>
        /\ ret.err = Errorf("updating receipt", ret.ids[ret.k], "db error")
        /\ ret.id \in DOMAIN reimbursements
        /\ reimbursements[ret.id].ReceiptIDs = ret.ids
        /\ \A j \in 1..(ret.k - 1) : receipts[ret.ids[j]].ReimbursementID = ret.id
        /\ \A j \in ret.k..Len(ret.ids) : receipts[ret.ids[j]].ReimbursementID = ""

\* C8, amended: ... and the members from k on that are not also listed before
\* k are as they were when the call began, untagged.
C8_PartialFailureDistinct ==
    (ret.op = "CreateReimbursement" /\ ret.err.kind = "updating receipt") =>
        /\ ret.err = Errorf("updating receipt", ret.ids[ret.k], "db error")
        /\ ret.id \in DOMAIN reimbursements
        /\ reimbursements[ret.id].ReceiptIDs = ret.ids
        /\ reimbursements[ret.id].TotalAmount = SumAmounts(ret.ids, ret.before.receipts)
        /\ \A j \in 1..(ret.k - 1) : receipts[ret.ids[j]].ReimbursementID = ret.id
        /\ \A j \in ret.k..Len(ret.ids) :
             (\A m \in 1..(ret.k - 1) : ret.ids[m] # ret.ids[j]) =>
                /\ receipts[ret.ids[j]] = ret.before.receipts[ret.ids[j]]
                /\ receipts[ret.ids[j]].ReimbursementID = ""

\* The write of the second of two different members failed.
C8_Witness ==
    /\ ret.op = "CreateReimbursement"
    /\ ret.err.kind = "updating receipt"
    /\ ret.k = 2
    /\ ret.ids[1] # ret.ids[2]
    /\ receipts[ret.ids[1]].ReimbursementID = ret.id
    /\ receipts[ret.ids[2]].ReimbursementID = ""

\* C9: CreateReceipt stores the receipt it is given, with the caller's fields
\* and CreatedAt and UpdatedAt set to the (non-zero) time of the call, or
\* returns the record store's error; and no other operation creates a record.
C9_Persisted ==
    ret.op = "CreateReceipt" =>
        IF ret.err = Nil
        THEN /\ ret.given.ID \in DOMAIN receipts
             /\ receipts[ret.given.ID].CreatedAt > 0
             /\ receipts[ret.given.ID].UpdatedAt = receipts[ret.given.ID].CreatedAt
             /\ receipts[ret.given.ID] =
                  [ret.given EXCEPT !.CreatedAt = receipts[ret.given.ID].CreatedAt,
                                    !.UpdatedAt = receipts[ret.given.ID].UpdatedAt]
        ELSE ret.err.cause = "db error"

C9_OnlyCreator ==
    (DOMAIN receipts' \ DOMAIN receipts # {}) => ret'.op = "CreateReceipt"

C9_FinalizeOnlyCreator == []C9_Persisted /\ [][C9_OnlyCreator]_vars

\* C10: when the scanner fails and the compensating delete fails too,
\* ProcessReceipt returns no receipt and the error that wraps the scanner's.
C10_ScanErrorWins ==
    (ret.op = "ProcessReceipt" /\ ret.scanErr # "" /\ ret.delErr # "") =>
        /\ ret.receipt = NilReceipt
        /\ ret.err = Errorf("scanning receipt", "", ret.scanErr)
        /\ ret.err.cause # ret.delErr

C10_Witness ==
    /\ ret.op = "ProcessReceipt"
    /\ ret.scanErr # ""
    /\ ret.delErr # ""
    /\ ret.key \in DOMAIN files

\* C11: the scanner is invoked only by a call whose blob is stored, under the
\* key of the generated id and the sanitized filename and with the original
\* bytes; and a ProcessReceipt whose blob save fails returns the storage error
\* in that very step, from idle (no scanner step in between), with the blob
\* store and the record store as they were.
C11_ScanStep ==
    \A p \in Procs :
        (pc[p] = "pr_scan" /\ pc'[p] # "pr_scan") =>
            /\ loc[p].savedPath = BlobKey(loc[p].id, sanitizeFilename(loc[p].u.filename))
            /\ loc[p].savedPath \in DOMAIN files
            /\ files[loc[p].savedPath] = loc[p].u.data

C11_SaveFailed ==
    (ret'.op = "ProcessReceipt" /\ ret'.err.kind = "saving file") =>
        /\ pc[ret'.proc] = "idle"
        /\ ret'.err.cause = "writing file"
        /\ ret'.receipt = NilReceipt
        /\ ret'.scanErr = ""
        /\ stores' = stores

C11_StoreBeforeExtract == [][C11_ScanStep /\ C11_SaveFailed]_vars

\* One call is about to be scanned, its blob stored, while the blob save of
\* another has just failed.
C11_Witness ==
    /\ ret.op = "ProcessReceipt"
    /\ ret.err.kind = "saving file"
    /\ \E p \in Procs : pc[p] = "pr_scan" /\ loc[p].savedPath \in DOMAIN files

\* C12, as claimed: when DeleteReceipt found the receipt and the delete of its
\* blob failed, the record is deleted and DeleteReceipt returns no error.
C12_BlobFailureSwallowed ==
    (ret.op = "DeleteReceipt" /\ ret.fileErr # "") =>
        /\ ret.err = Nil
        /\ ret.id \notin DOMAIN receipts

\* C12, amended: when DeleteReceipt found the receipt and the delete of its
\* blob failed, the call went on to the delete of the record: it returns no
\* error and the record is deleted, unless the delete of the record failed
\* too, and then it returns that error; the blob's error is never returned.
C12_BlobFailureThenRecord ==
    (ret.op = "DeleteReceipt" /\ ret.fileErr # "") =>
        \/ ret.err = Nil /\ ret.id \notin DOMAIN receipts
        \/ ret.err = Errorf("deleting receipt from database", "", "db error")

\* The record is gone, the blob it named is still stored.
C12_Witness ==
    /\ ret.op = "DeleteReceipt"
    /\ ret.fileErr # ""
    /\ ret.err = Nil
    /\ ret.id \notin DOMAIN receipts
    /\ \E k \in DOMAIN files : k[1] = ret.id

\* I4: the file named by every stored receipt is in the blob store.
I4 == \A id \in DOMAIN receipts : receipts[id].Filename \in DOMAIN files

\* C13: in every state in which a call has just returned, with or without an
\* error, I4 holds.
C13_I4AfterCompletion ==
    ret.op # "none" => I4

\* Every step but the failed delete of a record keeps I4, where the receipt of
\* a DeleteReceipt that has deleted the blob and not yet the record is set aside.
C13_BeingDeleted ==
    {loc[p].id : p \in {q \in Procs : pc[q] = "dr_db"}}

C13_I4InFlight ==
    \A id \in DOMAIN receipts \ C13_BeingDeleted : receipts[id].Filename \in DOMAIN files

C13_OnlyFailedRecordDeleteBreaksI4 ==
    [][(C13_I4InFlight /\ ~(ret'.op = "DeleteReceipt" /\ ret'.err # Nil))
          => C13_I4InFlight']_vars

\* C14: when the delete of the record fails, DeleteReceipt returns that error,
\* wrapped, and the record is still stored, as the call read it.
C14_RecordFailure ==
    (ret'.op = "DeleteReceipt" /\ ret'.err.kind = "deleting receipt from database") =>
        /\ pc[ret'.proc] = "dr_db"
        /\ ret'.err = Errorf("deleting receipt from database", "", "db error")
        /\ receipts' = receipts
        /\ ret'.id \in DOMAIN receipts'
        /\ receipts'[ret'.id] = loc[ret'.proc].receipt

C14_RecordFailureFatal == [][C14_RecordFailure]_vars

\* The delete of the record of a stored receipt has just failed.
C14_Witness ==
    /\ ret.op = "DeleteReceipt"
    /\ ret.err.kind = "deleting receipt from database"
    /\ ret.err.cause = "db error"
    /\ ret.id \in DOMAIN receipts

\* C15: once a stored receipt has a ReimbursementID, no step changes it to
\* another value or clears it, as long as the receipt is stored.
C15_Kept ==
    \A id \in DOMAIN receipts \cap DOMAIN receipts' :
        receipts[id].ReimbursementID # "" =>
            receipts'[id].ReimbursementID = receipts[id].ReimbursementID

C16_Rejected ==
    (ret'.op = "CreateReimbursement" /\ ret'.ids = <<>>) =>
        /\ pc[ret'.proc] = "idle"
        /\ ret'.err = Errorf("at least one receipt is required", "", "")
        /\ ret'.id = ""
        /\ clock' = clock
        /\ stores' = stores
        /\ succeeded' = succeeded

C16_NeverBegun ==
    \A p \in Procs : pc'[p] = "cr_validate" => Len(loc'[p].ids) > 0

C16_EmptyRejected == [][C16_Rejected /\ C16_NeverBegun]_vars

\* An empty list is rejected while a receipt that could be reimbursed is stored.
C16_Witness ==
    /\ ret.op = "CreateReimbursement"
    /\ ret.ids = <<>>
    /\ ret.err.kind = "at least one receipt is required"
    /\ \E id \in DOMAIN receipts : receipts[id].ReimbursementID = ""
    /\ reimbursements = ret.before.reimbursements

\* C17: a DeleteReceipt of an id under which no receipt is stored returns, in
\* its first step, the error that wraps the store's "receipt not found", and
\* leaves the blob store and the record store as they were; a DeleteReceipt
\* goes on to the deletes only for an id that is stored.
C17_NotFound ==
    \A p \in Procs :
        (pc[p] = "idle" /\ ret'.op = "DeleteReceipt" /\ ret'.proc = p) =>
            /\ ret'.id \notin DOMAIN receipts
            /\ ret'.err = Errorf("getting receipt for deletion", "", "receipt not found")
            /\ stores' = stores

C17_FoundGoesOn ==
    \A p \in Procs :
        (pc[p] = "idle" /\ pc'[p] = "dr_file") => loc'[p].id \in DOMAIN receipts

C17_MissingPropagated == [][C17_NotFound /\ C17_FoundGoesOn]_vars

\* No receipt under the id, while a receipt and its blob are stored.
C17_Witness ==
    /\ ret.op = "DeleteReceipt"
    /\ ret.err.cause = "receipt not found"
    /\ ret.id \notin DOMAIN receipts
    /\ \E id \in DOMAIN receipts : receipts[id].Filename \in DOMAIN files

\* C18: a receipt whose ReimbursementID is set is not removed from the record
\* store by any step (DeleteReceipt does not delete a reimbursed receipt).
C18_Kept ==
    \A id \in DOMAIN receipts :
        receipts[id].ReimbursementID # "" => id \in DOMAIN receipts'

C18_ReimbursedNotDeleted == [][C18_Kept]_vars

Min(S) == CHOOSE x \in S : \A y \in S : x <= y

\* C19: GetReimbursementWithReceipts(id) fails as a whole, with no
\* reimbursement and no receipt returned, when no reimbursement is stored
\* under id or when a member receipt is missing (the error names the first
\* missing member); otherwise it returns the stored reimbursement and its
\* member receipts, one for each entry of ReceiptIDs and in that order.
C19_WholeOrNothing ==
    ret.op = "GetReimbursementWithReceipts" =>
        IF ret.id \notin DOMAIN reimbursements
        THEN /\ ret.err = Errorf("getting reimbursement", "", "reimbursement not found")
             /\ ret.reimbursement = NilReimbursement
             /\ ret.receipts = <<>>
        ELSE LET ids     == reimbursements[ret.id].ReceiptIDs
                 missing == {i \in 1..Len(ids) : ids[i] \notin DOMAIN receipts}
             IN  IF missing # {}
                 THEN /\ ret.err = Errorf("getting receipt", ids[Min(missing)], "receipt not found")
                      /\ ret.k = Min(missing)
                      /\ ret.reimbursement = NilReimbursement
                      /\ ret.receipts = <<>>
                 ELSE /\ ret.err = Nil
                      /\ ret.reimbursement = reimbursements[ret.id]
                      /\ Len(ret.receipts) = Len(ids)
                      /\ \A i \in 1..Len(ids) : ret.receipts[i] = receipts[ids[i]]

\* The first member was found, the second, another receipt, is missing.
C19_Witness ==
    /\ ret.op = "GetReimbursementWithReceipts"
    /\ ret.err.kind = "getting receipt"
    /\ ret.k = 2
    /\ reimbursements[ret.id].ReceiptIDs[1] \in DOMAIN receipts
    /\ ret.receipts = <<>>

\* Both members of a batch of two receipts are returned, in order.
C19_WitnessFound ==
    /\ ret.op = "GetReimbursementWithReceipts"
    /\ ret.err = Nil
    /\ Len(ret.receipts) = 2
    /\ ret.receipts[1].ID # ret.receipts[2].ID
    /\ <<ret.receipts[1].ID, ret.receipts[2].ID>> = ret.reimbursement.ReceiptIDs

\* C20: once a Reimbursement is stored, no step changes its ReceiptIDs or its
\* TotalAmount or removes it.
C20_Kept ==
    \A b \in DOMAIN reimbursements :
        /\ b \in DOMAIN reimbursements'
        /\ reimbursements'[b].ReceiptIDs = reimbursements[b].ReceiptIDs
        /\ reimbursements'[b].TotalAmount = reimbursements[b].TotalAmount

C20_Immutable == [][C20_Kept]_vars

\* C21: a compensating delete of ProcessReceipt (after a failed scan, after a
\* failed save of the record) removes at most the blob that the same call
\* stored, under the key made of the id it generated; no stored receipt names
\* that blob, and the blob of every stored receipt is left in place.
C21_Compensation ==
    \A p \in Procs :
        (pc[p] \in {"pr_scanfailed", "pr_dbfailed"} /\ pc'[p] = "idle") =>
            /\ loc[p].savedPath = BlobKey(loc[p].id, sanitizeFilename(loc[p].u.filename))
            /\ DOMAIN files \ DOMAIN files' \subseteq {loc[p].savedPath}
            /\ \A id \in DOMAIN receipts :
                 /\ receipts[id].Filename # loc[p].savedPath
                 /\ receipts[id].Filename \in DOMAIN files
                        => receipts[id].Filename \in DOMAIN files'

----------------------------------------------------------------------------
(* ProcessReceipt over the answers a scanner can give: one upload, every
   amount from -MaxThousandths to MaxThousandths thousandths of a dollar and
   the two amounts of the service's test, besides the answers of ScanOutcomes. *)

MaxThousandths == 3000
MaxClockExtract == 2

ExtractAmounts == (-MaxThousandths..MaxThousandths) \cup {25990, 25999}

ExtractOutcomes ==
    { [err |-> "", data |-> [Title |-> "CVS", Date |-> "d20240115", Amount |-> a]] :
        a \in ExtractAmounts } \cup ScanOutcomes

NextExtract ==
    \E p \in SeqProcs :
        \/ \E u \in RaceUploads : ProcessReceipt_Save(p, u, MaxClockExtract)
        \/ \E o \in ExtractOutcomes : ProcessReceipt_Scan(p, o)
        \/ ProcessReceipt_ScanFailed(p)
        \/ ProcessReceipt_SaveDB(p)
        \/ ProcessReceipt_SaveDBFailed(p)

SpecExtract == Init /\ [][NextExtract]_vars

\* C22: for every amount d >= 0 that the scanner returns, in thousandths of a
\* dollar, the receipt that a successful ProcessReceipt returns has the
\* amount floor(d * 100) cents: truncated, never rounded (25.999 and 25.99
\* both give 2599).
C22_Converted ==
    \A p \in Procs :
        (/\ pc[p] = "pr_dbsave" /\ pc'[p] = "idle" /\ ret'.err = Nil
         /\ loc[p].receiptData.Amount >= 0)
            => ret'.receipt.Amount = loc[p].receiptData.Amount \div 10
C22_Truncates == [][C22_Converted]_vars

\* The amounts of the claim's examples are converted as it says.
C22_Examples ==
    \A p \in Procs :
        (/\ pc[p] = "pr_dbsave" /\ pc'[p] = "idle" /\ ret'.err = Nil
         /\ loc[p].receiptData.Amount \in {25990, 25999})
            => ret'.receipt.Amount = 2599
C22_ExamplesTruncate == [][C22_Examples]_vars

\* 0.29 dollars stored as 28 cents.
C22_CentLost ==
    /\ ret.op = "ProcessReceipt" /\ ret.err = Nil
    /\ ret.receipt.Amount = 28
    /\ ret.id \in DOMAIN receipts /\ receipts[ret.id].Amount = 28

\* C23 (I1): every Receipt that ProcessReceipt returns, and every Receipt in
\* the record store, has an amount that is a non-negative integer, whatever
\* amount the scanner returned.
C23_I1 ==
    /\ \A id \in DOMAIN receipts : receipts[id].Amount \in Nat
    /\ (ret.op = "ProcessReceipt" /\ ret.err = Nil) => ret.receipt.Amount \in Nat

\* A refund read by the scanner, -2.50 dollars, stored as -250 cents.
C23_NegativeStored ==
    /\ ret.op = "ProcessReceipt" /\ ret.err = Nil /\ ret.receipt.Amount = -250
    /\ receipts[ret.id].Amount = -250

----------------------------------------------------------------------------
(* sanitizeFilename(filename), service.go:70, applied to a filename and then
   to its own result.  The filenames: a run of letters, none or about maxLen
   of them, followed by up to MaxTail characters of every kind the function
   tells apart (a letter, a space, a character it strips, a dot, a path
   separator). *)

MaxTail == 4

TailChars == {"a", " ", "!", ".", "/"}
FillLens == {0} \cup ((maxLen - 3)..maxLen)
Fill(n) == [i \in 1..n |-> "b"]
Filenames == {Fill(n) \o tail : n \in FillLens, tail \in SeqsUpTo(TailChars, MaxTail)}

SanitizeResult(original, filename, pass) ==
    [ op |-> "sanitizeFilename", original |-> original, filename |-> filename,
      result |-> sanitizeFilename(filename), pass |-> pass ]

\* sanitizeFilename(x).
SanitizeFilename_Once(p, x) ==
    /\ pc[p] = "idle" /\ ret = NoRet
    /\ ret' = SanitizeResult(x, x, 1) @@ [proc |-> p]
    /\ UNCHANGED <<clock, stores, pc, loc, succeeded>>

\* sanitizeFilename(sanitizeFilename(x)).
SanitizeFilename_Twice(p) ==
    /\ pc[p] = "idle" /\ ret.op = "sanitizeFilename" /\ ret.pass = 1
    /\ ret' = SanitizeResult(ret.original, ret.result, 2) @@ [proc |-> p]
    /\ UNCHANGED <<clock, stores, pc, loc, succeeded>>

NextSanitize ==
    \E p \in SeqProcs :
        \/ \E x \in Filenames : SanitizeFilename_Once(p, x)
        \/ SanitizeFilename_Twice(p)

SpecSanitize == Init /\ [][NextSanitize]_vars

\* C24: sanitizeFilename is idempotent for every filename, bases cut at the
\* length cap included (sanitizeFilename(sanitizeFilename(x)) =
\* sanitizeFilename(x)), its result ends with the extension of the filename
\* it was given, and the base name before that extension is never empty.
C24_Idempotent ==
    (ret.op = "sanitizeFilename" /\ ret.pass = 2) => ret.result = ret.filename

C24_ExtensionKept ==
    ret.op = "sanitizeFilename" =>
        LET ext == Ext(ret.filename)
            n   == Len(ret.result)
        IN  /\ n > Len(ext)
            /\ SubSeq(ret.result, n - Len(ext) + 1, n) = ext
            /\ Ext(ret.result) = ext

C24_Sanitized == C24_Idempotent /\ C24_ExtensionKept

\* Idempotent on the filenames whose cleaned base is not cut.
C24_IdempotentUncut ==
    (ret.op = "sanitizeFilename" /\ ret.pass = 2 /\ Len(ret.original) <= maxLen)
        => ret.result = ret.filename

\* A base cut at the cap just after a space: the first result ends the base
\* with that space, the second has trimmed it.
C24_CutAfterSpace ==
    /\ ret.op = "sanitizeFilename" /\ ret.pass = 2
    /\ Len(ret.filename) = maxLen + 2 /\ ret.filename[maxLen] = " "
    /\ Len(ret.result) = maxLen + 1

\* An empty base becomes "receipt".
C24_DefaultBase ==
    /\ ret.op = "sanitizeFilename"
    /\ ret.original = <<"!", ".", "a">>
    /\ ret.result = <<"r", "e", "c", "e", "i", "p", "t", ".", "a">>

----------------------------------------------------------------------------
(* The scanners: Ollama.ScanReceipt and Gemini.ScanReceipt hand the model's
   answer to parseReceiptJSON (parse.go:11).  An answer is the text of the
   model: with or without a JSON object, whose title is a sequence of
   characters. *)

UnknownExpense ==
    <<"U", "n", "k", "n", "o", "w", "n", " ", "E", "x", "p", "e", "n", "s", "e">>

AnswerTitles ==
    { <<"C", "V", "S">>, <<" ", "C", "V", "S", " ">>, <<>>, <<" ", " ", " ">> }
AnswerDates == {"d20240115", "tomorrow", ""}

Answers ==
    { [json |-> TRUE, Title |-> t, Date |-> d, Amount |-> 25999] :
        t \in AnswerTitles, d \in AnswerDates } \cup
    { [json |-> FALSE, Title |-> <<>>, Date |-> "", Amount |-> 0] }

\* A parseReceiptJSON that leaves the trimmed title as it is.
parseReceiptJSON_NoDefault(text) ==
    IF ~text.json THEN [err |-> "no JSON object found in response", data |-> text]
    ELSE [ err  |-> "",
           data |-> [ Title  |-> TrimSpace(text.Title),
                      Date   |-> IF text.Date # "" /\ ParsesAsDate(text.Date)
                                 THEN text.Date ELSE Today,
                      Amount |-> text.Amount ] ]

\* parse.go:11-80: no JSON object is an error; a date that does not parse, or
\* none, becomes today's; the title is trimmed and, when empty, becomes
\* "Unknown Expense"; the amount is kept.
parseReceiptJSON(text) ==
    IF ~text.json THEN [err |-> "no JSON object found in response", data |-> text]
    ELSE LET title == TrimSpace(text.Title)
         IN  [ err  |-> "",
               data |-> [ Title  |-> IF title = <<>> THEN UnknownExpense ELSE title,
                          Date   |-> IF text.Date # "" /\ ParsesAsDate(text.Date)
                                     THEN text.Date ELSE Today,
                          Amount |-> text.Amount ] ]

\* Ollama.ScanReceipt, Gemini.ScanReceipt: the answer parsed, a parse error wrapped.
ScanReceipt(text) ==
    LET r == parseReceiptJSON(text)
    IN  IF r.err # "" THEN [err |-> "parsing receipt data: " \o r.err, data |-> r.data]
        ELSE r

\* What another implementation of Scanner may return: the data as it has them.
StubOutcomes ==
    { [err |-> "", data |-> [Title |-> t, Date |-> "d20240115", Amount |-> 10000]] :
        t \in {<<>>, <<"C", "V", "S">>} }

MaxClockScan == 4

NextScan ==
    \E p \in SeqProcs :
        \/ \E u \in Uploads : ProcessReceipt_Save(p, u, MaxClockScan)
        \/ \E text \in Answers : ProcessReceipt_Scan(p, ScanReceipt(text))
        \/ \E o \in StubOutcomes : ProcessReceipt_Scan(p, o)
        \/ ProcessReceipt_ScanFailed(p)
        \/ ProcessReceipt_SaveDB(p)
        \/ ProcessReceipt_SaveDBFailed(p)

SpecScan == Init /\ [][NextScan]_vars

C25_ScannedTitle ==
    \A p \in Procs :
        (pc[p] = "pr_dbsave" /\ pc'[p] = "idle" /\ ret'.err = Nil) =>
            /\ ret'.receipt.Title = loc[p].receiptData.Title
            /\ \A text \in Answers :
                 (text.json /\ loc[p].receiptData = ScanReceipt(text).data) =>
                     /\ ret'.receipt.Title # <<>>
                     /\ ret'.receipt.Title = TrimSpace(ret'.receipt.Title)
                     /\ TrimSpace(text.Title) = <<>> => ret'.receipt.Title = UnknownExpense
                     /\ TrimSpace(text.Title) # <<>> => ret'.receipt.Title = TrimSpace(text.Title)
----------------------------------------------------------------------------
(* Errors made by fmt.Errorf("...: %w", cause): Error() and errors.Unwrap. *)

ErrorText(e) == IF e.cause = "" THEN e.kind ELSE e.kind \o ": " \o e.cause
Unwrap(e) == e.cause

----------------------------------------------------------------------------
(* GetReceiptFile(id), service.go:200 *)

\* LocalStorage.Get: the bytes of the file, or an error when it is not there.
StorageGet(fs, path) ==
    IF path \in DOMAIN fs THEN [data |-> fs[path], err |-> ""]
    ELSE [data |-> "", err |-> "reading file"]

GetFileResult(id, data, contentType, err) ==
    [op |-> "GetReceiptFile", id |-> id, data |-> data, contentType |-> contentType,
     err |-> err]

\* service.go:201-204: read the receipt.
GetReceiptFile_Get(p, id) ==
    /\ pc[p] = "idle"
    /\ LET g == GetReceipt(receipts, id)
       IN  IF ~g.found
           THEN Return(p, GetFileResult(id, "", "", Errorf("getting receipt", "", g.err)))
           ELSE Goto(p, "gf_file", [op |-> "GetReceiptFile", id |-> id, receipt |-> receipts[id]])
    /\ UNCHANGED <<clock, stores, succeeded>>

\* service.go:206-211: read the blob the receipt names; return it with the
\* receipt's content type.
GetReceiptFile_File(p) ==
    /\ pc[p] = "gf_file"
    /\ LET l == loc[p]
           g == StorageGet(files, l.receipt.Filename)
       IN  IF g.err # ""
           THEN Return(p, GetFileResult(l.id, "", "", Errorf("getting receipt file", "", g.err)))
           ELSE Return(p, GetFileResult(l.id, g.data, l.receipt.ContentType, Nil))
    /\ UNCHANGED <<clock, stores, succeeded>>

\* The service with this read, calls one at a time, both uploads.
NextFile ==
    \E p \in SeqProcs :
        \/ Step(p, Uploads, RaceOutcomes, MaxClock)
        \/ \E id \in CandidateIDs : GetReceiptFile_Get(p, id)
        \/ GetReceiptFile_File(p)

SpecFile == Init /\ [][NextFile]_vars

\* The upload that ProcessReceipt stored under the key: the key is made of the
\* call's id and the clean name of the upload.
IsOriginal(id, key, data, contentType) ==
    \E u \in Uploads :
        /\ key = BlobKey(id, sanitizeFilename(u.filename))
        /\ data = u.data
        /\ contentType = u.contentType

\* C27: for a receipt that ProcessReceipt made and stored, GetReceiptFile(id)
\* returns exactly the bytes and the content type that ProcessReceipt was
\* given, until the receipt is deleted.
C27_RoundTrip ==
    (ret.op = "GetReceiptFile" /\ ret.id \in DOMAIN receipts) =>
        /\ ret.err = Nil
        /\ IsOriginal(ret.id, receipts[ret.id].Filename, ret.data, ret.contentType)

\* GetReceiptFile returns the original as long as the blob of the receipt is
\* stored, and an error when it is not.
C27_RoundTripWhileBlobStored ==
    (ret.op = "GetReceiptFile" /\ ret.id \in DOMAIN receipts) =>
        IF receipts[ret.id].Filename \in DOMAIN files
        THEN /\ ret.err = Nil
             /\ IsOriginal(ret.id, receipts[ret.id].Filename, ret.data, ret.contentType)
        ELSE ret.err = Errorf("getting receipt file", "", "reading file")

\* The original of the second upload read back.
C27_ReadBack ==
    /\ ret.op = "GetReceiptFile" /\ ret.err = Nil
    /\ ret.data = "bytes2" /\ ret.contentType = "application/pdf"

\* The receipt is stored, its blob is not: GetReceiptFile fails.
C27_BlobGone ==
    /\ ret.op = "GetReceiptFile" /\ ret.id \in DOMAIN receipts /\ ret.err # Nil

----------------------------------------------------------------------------
(* prepareImageData(imageData, contentType), conversion.go:146: what the
   scanners do to an upload before they send it to the model.  A content
   type is its sequence of characters.  Image data are their sequence of
   4-byte words: bytes 0..3, bytes 4..7, bytes 8..11, and the rest in one
   piece. *)

Lowered ==
    ("A" :> "a") @@ ("B" :> "b") @@ ("C" :> "c") @@ ("D" :> "d") @@ ("E" :> "e") @@ ("F" :> "f") @@
    ("G" :> "g") @@ ("H" :> "h") @@ ("I" :> "i") @@ ("J" :> "j") @@ ("K" :> "k") @@ ("L" :> "l") @@
    ("M" :> "m") @@ ("N" :> "n") @@ ("O" :> "o") @@ ("P" :> "p") @@ ("Q" :> "q") @@ ("R" :> "r") @@
    ("S" :> "s") @@ ("T" :> "t") @@ ("U" :> "u") @@ ("V" :> "v") @@ ("W" :> "w") @@ ("X" :> "x") @@
    ("Y" :> "y") @@ ("Z" :> "z")

\* strings.ToLower, strings.Contains
ToLower(s) == [i \in 1..Len(s) |-> IF s[i] \in DOMAIN Lowered THEN Lowered[s[i]] ELSE s[i]]
Contains(s, sub) ==
    \E i \in 1..(Len(s) - Len(sub) + 1) : SubSeq(s, i, i + Len(sub) - 1) = sub

MimePNG == <<"i", "m", "a", "g", "e", "/", "p", "n", "g">>
MimeJPEG == <<"i", "m", "a", "g", "e", "/", "j", "p", "e", "g">>
MimePDF == <<"a", "p", "p", "l", "i", "c", "a", "t", "i", "o", "n", "/", "p", "d", "f">>
MimeHEIC == <<"i", "m", "a", "g", "e", "/", "h", "e", "i", "c">>
MimeHEIF == <<"i", "m", "a", "g", "e", "/", "h", "e", "i", "f">>

DeclaredTypes ==
    { <<"i", "m", "a", "g", "e", "/", "p", "n", "g">>,
      <<" ", "I", "m", "a", "g", "e", "/", "P", "N", "G", " ">>,
      <<"i", "m", "a", "g", "e", "/", "j", "p", "e", "g">>,
      <<>>,
      <<" ", " ">>,
      <<"a", "p", "p", "l", "i", "c", "a", "t", "i", "o", "n", "/", "p", "d", "f">>,
      <<" ", "A", "p", "p", "l", "i", "c", "a", "t", "i", "o", "n", "/", "P", "D", "F">>,
      <<"i", "m", "a", "g", "e", "/", "h", "e", "i", "c">>,
      <<"I", "M", "A", "G", "E", "/", "H", "E", "I", "F">>,
      <<"i", "m", "a", "g", "e", "/", "x", "-", "h", "e", "i", "c", "-", "s", "e", "q", "u", "e", "n", "c", "e">>,
      <<"i", "m", "a", "g", "e", "/", "g", "i", "f">> }

\* Files: a PNG, a JPEG, a GIF, a PDF, HEIC files of the four brands that are
\* looked for and of another one, a video in the same container, a file that
\* has the HEIC magic and nothing behind it, and one cut short of 12 bytes.
PNGFile == <<".PNG", "crlf", "IHDR", "body">>
HEICBrands == {"heic", "heif", "mif1", "msf1"}
ImageFiles ==
    { PNGFile,
      <<"ffd8", "JFIF", "0001", "body">>,
      <<"GIF8", "9a01", "0001", "body">>,
      <<"%PDF", "-1.7", "obj1", "body">>,
      <<"0018", "ftyp", "heix", "body">>,
      <<"0018", "ftyp", "isom", "body">>,
      <<"0018", "ftyp", "heic">>,
      <<"0018", "ftyp">> } \cup
    { <<"0018", "ftyp", b, "body">> : b \in HEICBrands }

\* The decoders: what each of them can read.
IsPNG(data) == Len(data) = 4 /\ data[1] = ".PNG" /\ data[2] = "crlf"
FitzOpens(data) == Len(data) = 4 /\ data[1] = "%PDF"
HEICDecodes(data) ==
    Len(data) = 4 /\ data[2] = "ftyp" /\ data[3] \in HEICBrands \cup {"heix"}
ImageDecodes(data) == Len(data) = 4 /\ data[1] \in {".PNG", "ffd8", "GIF8"}

\* png.Encode of the decoded picture: a PNG file, not the bytes that were read.
Encoded == <<".PNG", "crlf", "IHDR", "encoded">>

\* conversion.go:41-62
pdfToImage(pdfData) ==
    IF FitzOpens(pdfData) THEN [data |-> Encoded, err |-> "", decoder |-> "fitz"]
    ELSE [data |-> <<>>, err |-> "opening PDF", decoder |-> "fitz"]

\* An isHEICFormat that finds no file to be HEIC.
isHEICFormat_Never(data) == FALSE

\* conversion.go:99-114: "ftyp" at offset 4 and one of four brands at offset 8.
isHEICFormat(data) ==
    IF Len(data) < 3 THEN FALSE
    ELSE data[2] = "ftyp" /\ data[3] \in HEICBrands

\* conversion.go:117-121
isHEICMimeType(mimeType) ==
    LET m == ToLower(TrimSpace(mimeType))
    IN  m = MimeHEIC \/ m = MimeHEIF \/ Contains(m, <<"h", "e", "i", "c">>)
            \/ Contains(m, <<"h", "e", "i", "f">>)

\* conversion.go:65-95
imageToPNG(imageData, mimeType) ==
    IF isHEICFormat(imageData) \/ isHEICMimeType(mimeType)
    THEN IF HEICDecodes(imageData) THEN [data |-> Encoded, err |-> "", decoder |-> "heic"]
         ELSE [data |-> <<>>, err |-> "decoding HEIC/HEIF image", decoder |-> "heic"]
    ELSE IF ImageDecodes(imageData) THEN [data |-> Encoded, err |-> "", decoder |-> "image"]
         ELSE [data |-> <<>>, err |-> "unsupported image format", decoder |-> "image"]

\* conversion.go:125-142
convertToPNG(imageData, mimeType) ==
    IF mimeType = MimePDF
    THEN LET r == pdfToImage(imageData)
         IN  IF r.err # ""
             THEN [data |-> <<>>, converted |-> FALSE, decoder |-> r.decoder,
                   err |-> "converting PDF to image: " \o r.err]
             ELSE [data |-> r.data, converted |-> TRUE, decoder |-> r.decoder, err |-> ""]
    ELSE IF mimeType # MimePNG \/ isHEICFormat(imageData) \/ isHEICMimeType(mimeType)
    THEN LET r == imageToPNG(imageData, mimeType)
         IN  IF r.err # ""
             THEN [data |-> <<>>, converted |-> FALSE, decoder |-> r.decoder,
                   err |-> "converting image to PNG: " \o r.err]
             ELSE [data |-> r.data, converted |-> TRUE, decoder |-> r.decoder, err |-> ""]
    ELSE [data |-> imageData, converted |-> FALSE, decoder |-> "", err |-> ""]

\* conversion.go:148-151: the content type lower-cased and trimmed, image/jpeg
\* when that is empty.
NormalizedType(contentType) ==
    LET m == ToLower(TrimSpace(contentType))
    IN  IF m = <<>> THEN MimeJPEG ELSE m

\* conversion.go:146-164, with the decoder that was called ("" when none).
prepareImageData(imageData, contentType) ==
    LET r == convertToPNG(imageData, NormalizedType(contentType))
    IN  IF r.err # ""
        THEN [ op |-> "prepareImageData", imageData |-> imageData,
               contentType |-> contentType, data |-> <<>>, mimeType |-> <<>>,
               converted |-> FALSE, err |-> r.err, decoder |-> r.decoder ]
        ELSE [ op |-> "prepareImageData", imageData |-> imageData,
               contentType |-> contentType, data |-> r.data, mimeType |-> MimePNG,
               converted |-> r.converted, err |-> "", decoder |-> r.decoder ]

\* A scanner prepares an upload.
PrepareImageData(p, imageData, contentType) ==
    /\ pc[p] = "idle"
    /\ ret' = prepareImageData(imageData, contentType) @@ [proc |-> p]
    /\ UNCHANGED <<clock, stores, pc, loc, succeeded>>

NextPrepare ==
    \E p \in SeqProcs : \E imageData \in ImageFiles, contentType \in DeclaredTypes :
        PrepareImageData(p, imageData, contentType)

SpecPrepare == Init /\ [][NextPrepare]_vars

\* C28: prepareImageData returns the input bytes unchanged, with converted
\* FALSE, exactly when the input is already a PNG and its bytes do not match
\* the HEIC/HEIF magic; on every other successful path the result is a
\* re-encoded PNG with converted TRUE; the content type returned is always
\* image/png.
C28_UnchangedIffPNG ==
    (ret.op = "prepareImageData" /\ ret.err = "") =>
        /\ ret.mimeType = MimePNG
        /\ IF IsPNG(ret.imageData) /\ ~isHEICFormat(ret.imageData)
           THEN ret.data = ret.imageData /\ ~ret.converted
           ELSE ret.data = Encoded /\ ret.converted

\* What is returned under the content type image/png is a PNG.
C28_ResultIsPNG ==
    (ret.op = "prepareImageData" /\ ret.err = "") => IsPNG(ret.data)

\* The same with "already a PNG" read as "declared as image/png".
C28_UnchangedIffDeclaredPNG ==
    (ret.op = "prepareImageData" /\ ret.err = "") =>
        /\ ret.mimeType = MimePNG
        /\ IF NormalizedType(ret.contentType) = MimePNG /\ ~isHEICFormat(ret.imageData)
           THEN ret.data = ret.imageData /\ ~ret.converted
           ELSE ret.data = Encoded /\ ret.converted

\* A JPEG declared as image/png comes back as it is, called image/png.
C28_JPEGPassedAsPNG ==
    /\ ret.op = "prepareImageData" /\ ret.err = ""
    /\ ret.imageData[1] = "ffd8" /\ ret.data = ret.imageData
    /\ ~ret.converted /\ ret.mimeType = MimePNG

\* A PNG declared as image/jpeg is decoded and encoded again.
C28_PNGReencoded ==
    /\ ret.op = "prepareImageData" /\ ret.err = ""
    /\ ret.imageData = PNGFile /\ ret.contentType = MimeJPEG
    /\ ret.converted /\ ret.data = Encoded

\* What a call of prepareImageData gave, apart from the content type it was given.
Outcome(r) ==
    [data |-> r.data, mimeType |-> r.mimeType, converted |-> r.converted,
     err |-> r.err, decoder |-> r.decoder]

\* C29: data whose bytes 4..7 are "ftyp" and whose bytes 8..11 are heic, heif,
\* mif1 or msf1 go to the HEIC decoder whatever content type is declared
\* (image/png and image/jpeg included), unless that is application/pdf; data
\* declared application/pdf always go to the PDF renderer; an empty content
\* type is taken as image/jpeg; content types are compared lower-cased and
\* trimmed.
C29_Precedence ==
    ret.op = "prepareImageData" =>
        LET declared == ToLower(TrimSpace(ret.contentType))
            magic    == /\ Len(ret.imageData) >= 3
                        /\ ret.imageData[2] = "ftyp"
                        /\ ret.imageData[3] \in {"heic", "heif", "mif1", "msf1"}
        IN  /\ declared = MimePDF => ret.decoder = "fitz"
            /\ (magic /\ declared # MimePDF) => ret.decoder = "heic"
            /\ declared = <<>> =>
                   Outcome(ret) = Outcome(prepareImageData(ret.imageData, MimeJPEG))
            /\ Outcome(ret) = Outcome(prepareImageData(ret.imageData, declared))

\* A HEIC file declared " Image/PNG " is decoded by the HEIC decoder.
C29_Witness ==
    /\ ret.op = "prepareImageData"
    /\ ret.imageData = <<"0018", "ftyp", "mif1", "body">>
    /\ ToLower(TrimSpace(ret.contentType)) = MimePNG /\ ret.contentType # MimePNG
    /\ ret.decoder = "heic" /\ ret.converted /\ ret.data = Encoded

\* A PDF declared " Application/PDF" is rendered; an upload without a content
\* type goes to the generic decoder.
C29_WitnessPDF ==
    /\ ret.op = "prepareImageData"
    /\ ret.contentType # MimePDF /\ ret.decoder = "fitz" /\ ret.err = ""

C29_WitnessEmpty ==
    /\ ret.op = "prepareImageData"
    /\ ret.contentType = <<>> /\ ret.decoder = "image" /\ ret.err = ""

----------------------------------------------------------------------------
(* The HTTP server, server.go.  A user name, a password and the decoded
   credentials of a request are sequences of pieces of text, ":" being a
   piece of its own.  An Authorization header is its scheme (what stands
   before the first space; "" when there is no header), whether the rest is
   valid base64, and what that decodes to. *)

Usernames == {<<>>, <<"user">>}
Passwords == {<<>>, <<"pass">>, <<"pa", ":", "ss">>}
BasicAuths == {[Username |-> u, Password |-> w] : u \in Usernames, w \in Passwords}

AuthorizationHeaders ==
    { [scheme |-> "", base64 |-> TRUE, decoded |-> <<>>],
      [scheme |-> "Bearer", base64 |-> TRUE, decoded |-> <<"user", ":", "pass">>],
      [scheme |-> "basic", base64 |-> TRUE, decoded |-> <<"user", ":", "pass">>],
      [scheme |-> "Basic", base64 |-> FALSE, decoded |-> <<>>] } \cup
    { [scheme |-> "Basic", base64 |-> TRUE, decoded |-> d] :
        d \in { <<"user", ":", "pass">>, <<"user", ":", "wrong">>, <<"user">>,
                <<"user", ":">>, <<":", "pass">>, <<"user", ":", "pa", ":", "ss">>,
                <<":">>, <<>> } }

Methods == {"GET", "POST", "DELETE", "OPTIONS"}
Paths ==
    { "/static/controllers/", "/static/app.css", "/static/app.js",
      "/api/receipts/{id}/file", "/api/receipts/{id}", "/api/receipts",
      "/api/reimbursements/{id}", "/api/reimbursements", "/index.html", "/other" }

Requests ==
    { [method |-> m, path |-> path, authorization |-> a] :
        m \in Methods, path \in Paths, a \in AuthorizationHeaders }

\* registerRoutes (server.go:123-144): the handler of a method and a path,
\* "" when the mux has none; "GET /" takes every other GET.
Routes ==
    (<<"GET", "/static/controllers/">> :> "handleControllers") @@
    (<<"GET", "/static/app.css">> :> "handleStaticCSS") @@
    (<<"GET", "/static/app.js">> :> "handleStaticJS") @@
    (<<"GET", "/api/receipts/{id}/file">> :> "handleGetReceiptFile") @@
    (<<"GET", "/api/receipts/{id}">> :> "handleGetReceipt") @@
    (<<"DELETE", "/api/receipts/{id}">> :> "handleDeleteReceipt") @@
    (<<"GET", "/api/receipts">> :> "handleListReceipts") @@
    (<<"POST", "/api/receipts">> :> "handleUploadReceipt") @@
    (<<"GET", "/api/reimbursements/{id}">> :> "handleGetReimbursement") @@
    (<<"GET", "/api/reimbursements">> :> "handleListReimbursements") @@
    (<<"POST", "/api/reimbursements">> :> "handleCreateReimbursement") @@
    (<<"GET", "/index.html">> :> "handleIndex") @@
    (<<"GET", "/other">> :> "handleIndex")

Route(r) ==
    IF <<r.method, r.path>> \in DOMAIN Routes THEN Routes[<<r.method, r.path>>] ELSE ""

\* strings.SplitN(s, ":", 2)
SplitN2(s) ==
    LET colons == {i \in 1..Len(s) : s[i] = ":"}
    IN  IF colons = {} THEN <<s>>
        ELSE LET i == CHOOSE c \in colons : \A d \in colons : c <= d
             IN  <<SubSeq(s, 1, i - 1), SubSeq(s, i + 1, Len(s))>>

\* An authenticate that is content with the Basic scheme.
authenticate_SchemeOnly(basicAuth, r) ==
    IF basicAuth.Username = <<>> /\ basicAuth.Password = <<>> THEN TRUE
    ELSE r.authorization.scheme = "Basic"

\* server.go:40-61
authenticate(basicAuth, r) ==
    IF basicAuth.Username = <<>> /\ basicAuth.Password = <<>> THEN TRUE
    ELSE IF r.authorization.scheme # "Basic" THEN FALSE
    ELSE IF ~r.authorization.base64 THEN FALSE
    ELSE LET credentials == SplitN2(r.authorization.decoded)
         IN  IF Len(credentials) # 2 THEN FALSE
             ELSE credentials[1] = basicAuth.Username /\ credentials[2] = basicAuth.Password

Response(status, wwwAuthenticate, handler) ==
    [op |-> "response", status |-> status, wwwAuthenticate |-> wwwAuthenticate,
     handler |-> handler]

\* A request arrives at a server made with basicAuth.
ServeHTTP(p, basicAuth, r) ==
    /\ pc[p] = "idle" /\ ret.op # "request"
    /\ ret' = [op |-> "request", basicAuth |-> basicAuth, r |-> r, proc |-> p]
    /\ UNCHANGED <<clock, stores, pc, loc, succeeded>>

\* corsMiddleware (server.go:64-77, 150-154) and the mux: a preflight is
\* answered at once, a request without a route is refused by the mux.
NoRoute(p) ==
    /\ pc[p] = "idle" /\ ret.op = "request" /\ ret.proc = p
    /\ ret.r.method = "OPTIONS" \/ Route(ret.r) = ""
    /\ ret' = (IF ret.r.method = "OPTIONS" THEN Response(204, "", "")
               ELSE Response(404, "", "")) @@ [proc |-> p]
    /\ UNCHANGED <<clock, stores, pc, loc, succeeded>>

\* requireAuth (server.go:80-91), the request not authenticated.
Unauthorized(p) ==
    /\ pc[p] = "idle" /\ ret.op = "request" /\ ret.proc = p
    /\ ret.r.method # "OPTIONS" /\ Route(ret.r) # ""
    /\ ~authenticate(ret.basicAuth, ret.r)
    /\ ret' = Response(401, "Basic realm=\"HSA Tracker\"", "") @@ [proc |-> p]
    /\ UNCHANGED <<clock, stores, pc, loc, succeeded>>

\* The handlers that answer without the service or by one read of it.
ReadHandlers ==
    { "handleControllers", "handleStaticCSS", "handleStaticJS", "handleIndex",
      "handleListReceipts", "handleListReimbursements" }

\* Service.GetReceipt (service.go:162-168): one read of the record store.
Service_GetReceipt(p, id) ==
    /\ pc[p] = "idle"
    /\ LET g == GetReceipt(receipts, id)
       IN  Return(p, [ op |-> "GetReceipt", id |-> id,
                       receipt |-> IF g.found THEN receipts[id] ELSE NilReceipt,
                       err |-> IF g.found THEN Nil ELSE Errorf("getting receipt", "", g.err) ])
    /\ UNCHANGED <<clock, stores, succeeded>>

\* requireAuth, the request authenticated: next(w, r), the handler, which
\* calls the service (html.go).
Authorized(p) ==
    /\ pc[p] = "idle" /\ ret.op = "request" /\ ret.proc = p
    /\ ret.r.method # "OPTIONS" /\ Route(ret.r) # ""
    /\ authenticate(ret.basicAuth, ret.r)
    /\ LET h == Route(ret.r)
       IN  \/ /\ h \in ReadHandlers
              /\ ret' = Response(200, "", h) @@ [proc |-> p]
              /\ UNCHANGED <<clock, stores, pc, loc, succeeded>>
           \/ /\ h = "handleUploadReceipt"
              /\ \E u \in RaceUploads : ProcessReceipt_Save(p, u, MaxClockScan)
           \/ /\ h = "handleDeleteReceipt"
              /\ \E id \in CandidateIDs : DeleteReceipt_Get(p, id)
           \/ /\ h = "handleGetReceipt"
              /\ \E id \in CandidateIDs : Service_GetReceipt(p, id)
           \/ /\ h = "handleGetReceiptFile"
              /\ \E id \in CandidateIDs : GetReceiptFile_Get(p, id)
           \/ /\ h = "handleCreateReimbursement"
              /\ \/ CreateReimbursement_Empty(p)
                 \/ \E ids \in SeqsUpTo(CandidateIDs, MaxIDs) :
                        CreateReimbursement_Begin(p, ids, MaxClockScan)
           \/ /\ h = "handleGetReimbursement"
              /\ \E id \in CandidateReimbursementIDs : GetReimbursementWithReceipts_Get(p, id)

\* The steps of the service calls that the handlers began.
ServiceStep(p) ==
    \/ \E o \in RaceOutcomes : ProcessReceipt_Scan(p, o)
    \/ ProcessReceipt_ScanFailed(p)
    \/ ProcessReceipt_SaveDB(p)
    \/ ProcessReceipt_SaveDBFailed(p)
    \/ DeleteReceipt_File(p)
    \/ DeleteReceipt_DB(p)
    \/ CreateReimbursement_Validate(p)
    \/ CreateReimbursement_Save(p)
    \/ CreateReimbursement_MarkGet(p)
    \/ CreateReimbursement_MarkSave(p)
    \/ GetReceiptFile_File(p)
    \/ GetReimbursementWithReceipts_Receipt(p)

\* The status with which each handler answers what its service call returned
\* (html.go:163-305).
HandlerStatus(result) ==
    CASE result.op = "GetReceipt" -> IF result.err # Nil THEN 404 ELSE 200
      [] result.op = "GetReceiptFile" -> IF result.err # Nil THEN 404 ELSE 200
      [] result.op = "DeleteReceipt" -> IF result.err # Nil THEN 500 ELSE 204
      [] result.op = "GetReimbursementWithReceipts" -> IF result.err # Nil THEN 404 ELSE 200
      [] result.op = "ProcessReceipt" -> IF result.err # Nil THEN 400 ELSE 201
      [] result.op = "CreateReimbursement" -> IF result.err # Nil THEN 400 ELSE 201

ServiceCalls ==
    { "GetReceipt", "GetReceiptFile", "DeleteReceipt", "GetReimbursementWithReceipts",
      "ProcessReceipt", "CreateReimbursement" }

\* The service call has returned to its handler, which writes the response.
Respond(p) ==
    /\ pc[p] = "idle" /\ ret.op \in ServiceCalls /\ ret.proc = p
    /\ ret' = [ op |-> "response", status |-> HandlerStatus(ret), wwwAuthenticate |-> "",
                handler |-> ret.op, result |-> ret, proc |-> p ]
    /\ UNCHANGED <<clock, stores, pc, loc, succeeded>>

NextServer ==
    \E p \in SeqProcs :
        \/ \E basicAuth \in BasicAuths, r \in Requests : ServeHTTP(p, basicAuth, r)
        \/ NoRoute(p)
        \/ Unauthorized(p)
        \/ Authorized(p)
        \/ ServiceStep(p)
        \/ Respond(p)

SpecServer == Init /\ [][NextServer]_vars

\* The request carries "Basic " and the base64 of user:pass, with the user
\* name and the password of the server.
ValidBasic(basicAuth, r) ==
    /\ r.authorization.scheme = "Basic"
    /\ r.authorization.base64
    /\ r.authorization.decoded = basicAuth.Username \o <<":">> \o basicAuth.Password

\* C30: when a user name or a password is configured, every registered route
\* answers a request without a valid Basic Authorization header with 401 and
\* a WWW-Authenticate header, and the handler behind it is not called: no
\* store is read or changed and no call of the service is begun.  When
\* neither is configured, every request to a registered route is let through
\* to its handler.
C30_Answer ==
    (/\ ret.op = "request" /\ ret' # ret
     /\ <<ret.r.method, ret.r.path>> \in DOMAIN Routes) =>
        IF ret.basicAuth.Username # <<>> \/ ret.basicAuth.Password # <<>>
        THEN ~ValidBasic(ret.basicAuth, ret.r) =>
                 /\ ret'.op = "response" /\ ret'.status = 401
                 /\ ret'.wwwAuthenticate # "" /\ ret'.handler = ""
                 /\ UNCHANGED <<clock, stores, pc, loc, succeeded>>
        ELSE ~(ret'.op = "response" /\ ret'.status = 401)
C30_Gate == [][C30_Answer]_vars

\* A DELETE with a wrong password refused while a receipt is stored.
C30_Witness ==
    /\ ret.op = "response" /\ ret.status = 401 /\ ret.wwwAuthenticate # ""
    /\ DOMAIN receipts # {} /\ DOMAIN files # {}
    /\ \A p \in Procs : pc[p] = "idle"

\* A request went through to handleDeleteReceipt, which deleted a receipt.
C30_WitnessOpen ==
    /\ ret.op = "DeleteReceipt" /\ ret.err = Nil

\* What the service returned says that a receipt, a reimbursement or a blob
\* is not there.
NotFoundOutcome(result) ==
    /\ result.op \in {"GetReceipt", "GetReceiptFile", "DeleteReceipt",
                      "GetReimbursementWithReceipts"}
    /\ result.err # Nil
    /\ result.err.cause \in {"receipt not found", "reimbursement not found", "reading file"}

\* C31: every not-found outcome (receipt, reimbursement or blob missing) of
\* GetReceipt, GetReceiptFile, DeleteReceipt and GetReimbursementWithReceipts
\* is answered by its handler with status 404.
C31_NotFoundIs404 ==
    (ret.op = "response" /\ ret.handler \in ServiceCalls /\ NotFoundOutcome(ret.result))
        => ret.status = 404

\* The same for the three reads alone.
C31_ReadNotFoundIs404 ==
    (/\ ret.op = "response" /\ ret.handler \in ServiceCalls
     /\ NotFoundOutcome(ret.result) /\ ret.result.op # "DeleteReceipt")
        => ret.status = 404

\* DELETE of a receipt that is not there, answered 500.
C31_DeleteMissing500 ==
    /\ ret.op = "response" /\ ret.handler = "DeleteReceipt"
    /\ ret.result.err = Errorf("getting receipt for deletion", "", "receipt not found")
    /\ ret.status = 500

\* The three kinds of missing thing answered 404 by the reads.
C31_MissingBlob404 ==
    /\ ret.op = "response" /\ ret.handler = "GetReceiptFile"
    /\ ret.result.err.cause = "reading file" /\ ret.status = 404
C31_MissingReimbursement404 ==
    /\ ret.op = "response" /\ ret.handler = "GetReimbursementWithReceipts"
    /\ ret.result.err.cause = "reimbursement not found" /\ ret.status = 404
C31_MissingMember404 ==
    /\ ret.op = "response" /\ ret.handler = "GetReimbursementWithReceipts"
    /\ ret.result.err.cause = "receipt not found" /\ ret.status = 404

C32_AfterFailedSecondPass ==
    /\ ret.op = "CreateReimbursement"
    /\ ret.err # Nil
    /\ \E id \in DOMAIN receipts : receipts[id].ReimbursementID \in DOMAIN reimbursements \ succeeded

\* The places of the list of the call that returned r whose id was missing or
\* already reimbursed when the call began.
Offending(r) ==
    {j \in 1..Len(r.ids) :
        \/ r.ids[j] \notin DOMAIN r.before.receipts
        \/ r.before.receipts[r.ids[j]].ReimbursementID # ""}

\* C33: Create validates the ids in the given order and stops at the first
\* failure. When some id of the list is missing or already reimbursed, the call
\* returns the error of the first such place in list order, naming its id (not
\* found when it is missing, already reimbursed otherwise), it stopped there
\* (ret.k, the number of reads the first loop made, is that place: the ids
\* after it were never read), and nothing was written.
C33_FirstFailure ==
    (ret.op = "CreateReimbursement" /\ Offending(ret) # {}) =>
        LET k == CHOOSE j \in Offending(ret) : \A m \in Offending(ret) : j <= m
        IN  /\ ret.k = k
            /\ ret.err =
                 IF ret.ids[k] \notin DOMAIN ret.before.receipts
                 THEN Errorf("getting receipt", ret.ids[k], "receipt not found")
                 ELSE Errorf("receipt is already reimbursed", ret.ids[k], "")
            /\ receipts = ret.before.receipts
            /\ reimbursements = ret.before.reimbursements

\* A Create stopped at the first id of its list, an already reimbursed one,
\* with a missing id behind it.
C33_Witness ==
    /\ ret.op = "CreateReimbursement"
    /\ Len(ret.ids) = 2
    /\ ret.k = 1
    /\ ret.err = Errorf("receipt is already reimbursed", ret.ids[1], "")
    /\ ret.ids[2] \notin DOMAIN ret.before.receipts

\* A Create stopped at the second id of its list, a missing one.
C33_WitnessSecond ==
    /\ ret.op = "CreateReimbursement"
    /\ Len(ret.ids) = 2
    /\ ret.k = 2
    /\ ret.err = Errorf("getting receipt", ret.ids[2], "receipt not found")

----------------------------------------------------------------------------
(* Lists with an id given twice, over receipts of positive, zero and negative
   amount *)

\* The scanner's answers: amounts of 25.999, 0 and -2.50 dollars, and an error.
DupOutcomes ==
    { [err |-> "", data |-> [Title |-> "CVS", Date |-> "d20240115", Amount |-> a]] :
        a \in {25999, 0, -2500} } \cup {o \in RaceOutcomes : o.err # ""}

NextDup == \E p \in SeqProcs : Step(p, RaceUploads, DupOutcomes, MaxClock)

SpecDup == Init /\ [][NextDup]_vars

\* The call that returned r was given the same stored, unreimbursed receipt twice.
SameIDTwice(r) ==
    /\ r.op = "CreateReimbursement"
    /\ Len(r.ids) = 2
    /\ r.ids[1] = r.ids[2]
    /\ r.ids[1] \in DOMAIN r.before.receipts
    /\ r.before.receipts[r.ids[1]].ReimbursementID = ""

\* The errors of a failed write.
WriteErrors == {"saving reimbursement", "updating receipt"}

\* C34, as claimed: Create with the same unreimbursed receipt id given twice is
\* not rejected; when it succeeds it stores the id twice in ReceiptIDs and adds
\* the receipt's amount to TotalAmount once per occurrence, so that TotalAmount
\* exceeds the sum over the distinct member receipts.
C34_DuplicatesExceed ==
    SameIDTwice(ret) =>
        /\ ret.err.kind \in {""} \cup WriteErrors
        /\ ret.err = Nil =>
             /\ reimbursements[ret.id].ReceiptIDs = ret.ids
             /\ reimbursements[ret.id].TotalAmount = 2 * ret.before.receipts[ret.ids[1]].Amount
             /\ reimbursements[ret.id].TotalAmount > ret.before.receipts[ret.ids[1]].Amount

\* C34, amended: Create with the same unreimbursed receipt id given twice is
\* not rejected (it fails only when a write fails); when it succeeds it stores
\* the id twice in ReceiptIDs and adds the receipt's amount to TotalAmount once
\* per occurrence, so that TotalAmount exceeds the sum over the distinct member
\* receipts when the amount is positive, equals it when the amount is zero and
\* is below it when the amount is negative.
C34_DuplicatesCounted ==
    SameIDTwice(ret) =>
        LET amount == ret.before.receipts[ret.ids[1]].Amount
        IN  /\ ret.err.kind \in {""} \cup WriteErrors
            /\ ret.err = Nil =>
                 /\ reimbursements[ret.id].ReceiptIDs = ret.ids
                 /\ reimbursements[ret.id].TotalAmount = 2 * amount
                 /\ amount > 0 => reimbursements[ret.id].TotalAmount > amount
                 /\ amount = 0 => reimbursements[ret.id].TotalAmount = amount
                 /\ amount < 0 => reimbursements[ret.id].TotalAmount < amount
                 /\ receipts[ret.ids[1]].ReimbursementID = ret.id

\* Create of a receipt of 25.99 given twice succeeded with a total of 51.98.
C34_Witness ==
    /\ SameIDTwice(ret)
    /\ ret.err = Nil
    /\ ret.before.receipts[ret.ids[1]].Amount = 2599
    /\ reimbursements[ret.id].TotalAmount = 5198
    /\ reimbursements[ret.id].ReceiptIDs = <<ret.ids[1], ret.ids[1]>>

\* Create of a receipt of amount 0 given twice succeeded: the total is 0, the
\* sum over the distinct members.
C34_ZeroAmountTwice ==
    /\ SameIDTwice(ret)
    /\ ret.err = Nil
    /\ ret.before.receipts[ret.ids[1]].Amount = 0
    /\ reimbursements[ret.id].TotalAmount = 0

\* The steps of a ProcessReceipt of caller p up to a successful return: the
\* first stores one blob under a fresh key that carries the generated id and
\* writes no record; the scan writes nothing; the save of the record adds the
\* one record of that id, which was not stored before, and leaves every blob
\* and every other record as it was.
ProcessStepsOnSuccess(p) ==
    /\ (pc[p] = "idle" /\ pc'[p] = "pr_scan") =>
          /\ loc'[p].savedPath \notin DOMAIN files
          /\ loc'[p].savedPath[1] = loc'[p].id
          /\ files' = Put(files, loc'[p].savedPath, loc'[p].u.data)
          /\ UNCHANGED <<receipts, reimbursements>>
    /\ pc[p] = "pr_scan" => UNCHANGED stores
    /\ (pc[p] = "pr_dbsave" /\ pc'[p] = "idle") =>
          /\ ret'.err = Nil
          /\ loc[p].id \notin DOMAIN receipts
          /\ receipts' = Put(receipts, loc[p].id, ret'.receipt)
          /\ {k \in DOMAIN files' : k[1] = loc[p].id} = {loc[p].savedPath}
          /\ UNCHANGED <<files, reimbursements>>

\* C35, as claimed: if the save of the record inside ProcessReceipt fails, the
\* blob stored by the call is deleted, an error is returned and no record is
\* stored under the generated id; on success exactly one new blob and one new
\* record exist for the id and no other blob or record was changed.
C35_BlobDeletedOnSaveFailure ==
    [][\A p \in SeqProcs :
         /\ ProcessStepsOnSuccess(p)
         /\ (pc[p] = "pr_dbfailed" /\ pc'[p] = "idle") =>
               /\ ret'.err = Errorf("saving receipt to database", "", loc[p].dbErr)
               /\ loc[p].savedPath \notin DOMAIN files'
               /\ loc[p].id \notin DOMAIN receipts'
               /\ UNCHANGED <<receipts, reimbursements>>]_vars

\* C35, amended: if the save of the record inside ProcessReceipt fails, an
\* error is returned, no record is stored under the generated id, and the
\* delete of the blob stored by the call is attempted: the blob is gone when
\* that delete succeeds and stays, with no record, when it fails (its error is
\* dropped); no other blob or record is changed. On success exactly one new
\* blob and one new record exist for the id and no other blob or record was
\* changed.
C35_CompensatedOnSaveFailure ==
    [][\A p \in SeqProcs :
         /\ ProcessStepsOnSuccess(p)
         /\ (pc[p] = "pr_dbsave" /\ pc'[p] = "pr_dbfailed") => UNCHANGED stores
         /\ (pc[p] = "pr_dbfailed" /\ pc'[p] = "idle") =>
               /\ ret'.err = Errorf("saving receipt to database", "", loc[p].dbErr)
               /\ loc[p].id \notin DOMAIN receipts'
               /\ files' = IF ret'.delErr = "" THEN Remove(files, loc[p].savedPath)
                           ELSE files
               /\ loc[p].savedPath \in DOMAIN files
               /\ UNCHANGED <<receipts, reimbursements>>]_vars

\* The save of the record failed and the blob of the call was deleted, next to
\* a receipt stored by an earlier call.
C35_Witness ==
    /\ ret.op = "ProcessReceipt"
    /\ ret.err.kind = "saving receipt to database"
    /\ ret.delErr = ""
    /\ ret.key \notin DOMAIN files
    /\ ret.id \notin DOMAIN receipts
    /\ DOMAIN receipts # {}
    /\ DOMAIN files # {}

\* The save of the record failed and so did the delete: the blob stays, with
\* no record for its id.
C35_OrphanBlob ==
    /\ ret.op = "ProcessReceipt"
    /\ ret.err.kind = "saving receipt to database"
    /\ ret.delErr # ""
    /\ ret.key \in DOMAIN files
    /\ ret.id \notin DOMAIN receipts

\* A ProcessReceipt returned success after an earlier one had: two blobs, two records.
C35_SecondSuccess ==
    /\ ret.op = "ProcessReceipt"
    /\ ret.err = Nil
    /\ Cardinality(DOMAIN receipts) = 2
    /\ Cardinality(DOMAIN files) = 2

----------------------------------------------------------------------------
(* The upload page, static/controllers/upload_controller.js.  The page runs in
   the browser (caller Browser): submit walks the selected files, sends each to
   POST /api/receipts/scan, waits for the user to review the scanned draft and
   counts the file.  The server (caller Backend) answers a scan request with
   ProcessReceipt and a save request, POST /api/receipts with the reviewed
   draft, with CreateReceipt.  The two handlers are not in the server code at
   hand (its tests call them); they are modelled from the specification and
   shaped after handleUploadReceipt: an error of the service is answered 400
   with the error's text as JSON. *)

Browser == "p1"
Backend == "p2"

\* upload_controller.js:36
maxRetries == 5
\* The most files selected, the most saves in flight, and where the clock stops.
MaxFiles == 2
MaxSaves == 2
MaxClockUpload == 5

\* The i-th selected file.
FileOf(i) == CHOOSE u \in Uploads : u.data = (IF i = 1 THEN "bytes1" ELSE "bytes2")

\* Messages are sequences of words.  The words of the texts that the service's
\* errors are made of (fmt.Errorf joins the prefix and the cause with ": ").
Words(text) ==
    CASE text = "429 quota exceeded" -> <<"429", "quota", "exceeded">>
      [] text = "Please retry in 50.404s." -> <<"Please", "retry", "in", "50.404", "s", ".">>
      [] text = "connection refused" -> <<"connection", "refused">>
      [] text = "scanning receipt" -> <<"scanning", "receipt", ":">>
      [] text = "saving file" -> <<"saving", "file", ":">>
      [] text = "saving receipt to database" -> <<"saving", "receipt", "to", "database", ":">>
      [] text = "writing file" -> <<"writing", "file">>
      [] text = "db error" -> <<"db", "error">>
      [] OTHER -> <<>>

\* err.Error() as words.
ErrorWords(e) == Words(e.kind) \o Words(e.cause)

\* The scanner's answers to the upload page's requests: a receipt, a rate
\* limit without and with a retry time, another failure.
UploadScanErrors == {"429 quota exceeded", "Please retry in 50.404s.", "connection refused"}
UploadOutcomes ==
    { [err |-> "", data |-> [Title |-> "CVS", Date |-> "d20240115", Amount |-> 25999]] } \cup
    { [err |-> e, data |-> [Title |-> "CVS", Date |-> "d20240115", Amount |-> 25999]] :
        e \in UploadScanErrors }

\* A fetch that was answered, and one that was rejected.
HTTPResponse(status, json, error, statusText, receipt) ==
    [ kind |-> "response", ok |-> status \in 200..299, status |-> status, json |-> json,
      error |-> error, statusText |-> statusText, receipt |-> receipt ]
Thrown(message) == [kind |-> "thrown", message |-> message]

\* The scan handler's answer to what ProcessReceipt returned.
ScanResponse(result) ==
    IF result.err # Nil
    THEN HTTPResponse(400, TRUE, ErrorWords(result.err), <<"Bad", "Request">>, NilReceipt)
    ELSE HTTPResponse(200, TRUE, <<>>, <<"OK">>, result.receipt)

\* Answers that do not come from the service: a 429 of a proxy with a body
\* that is no JSON, a 429 whose message gives a retry time of 0, the handler's
\* refusal of a file that is too large, a 200 whose body is no JSON, and fetch
\* failing with and without a rate limit's words in its message.
TransportAnswers ==
    { HTTPResponse(429, FALSE, <<>>, <<"Too", "Many", "Requests">>, NilReceipt),
      HTTPResponse(429, TRUE, <<"rate", "limit", ",", "retry", "in", "0", "s">>, <<>>, NilReceipt),
      HTTPResponse(400, TRUE, <<"File", "is", "too", "large">>, <<"Bad", "Request">>, NilReceipt),
      HTTPResponse(200, FALSE, <<>>, <<"OK">>, NilReceipt),
      Thrown(<<"Failed", "to", "fetch">>),
      Thrown(<<"quota", "exceeded">>) }

\* upload_controller.js:58-61, 104-107: String.includes of the four markers.
RateLimitMarkers == { <<"429">>, <<"quota">>, <<"rate", "limit">>, <<"Please", "retry">> }
IsRateLimitMessage(message) == \E m \in RateLimitMarkers : Contains(message, m)

\* parseFloat of the numerals that occur, in thousandths of a second.
ParseFloat(numeral) ==
    CASE numeral = "50.404" -> 50404
      [] numeral = "0" -> 0
      [] OTHER -> 0
Numerals == {"50.404", "0"}

\* upload_controller.js:281-289: the seconds after "retry in", 0 when the
\* message has none; in thousandths.
parseRetryTime(errorMessage) ==
    LET at == {k \in 1..(Len(errorMessage) - 3) :
                 /\ errorMessage[k] = "retry"
                 /\ errorMessage[k + 1] = "in"
                 /\ errorMessage[k + 2] \in Numerals
                 /\ errorMessage[k + 3] = "s"}
    IN  IF at = {} THEN 0 ELSE ParseFloat(errorMessage[Min(at) + 2])

\* Math.ceil of thousandths, in seconds.
Ceil(thousandths) == (thousandths + 999) \div 1000

\* upload_controller.js:76, 116: Math.min(60, Math.pow(2, retries) * 5).
Backoff(retries) == Min({60, 2^retries * 5})

\* A backoff that is not capped.
WaitTime_Uncapped(message, retries) ==
    IF parseRetryTime(message) > 0 THEN Ceil(parseRetryTime(message)) + 1
    ELSE 2^retries * 5

\* upload_controller.js:69-72, 109-112 and 74-77, 114-117: the seconds to wait
\* before the next attempt.
WaitTime(message, retries) ==
    IF parseRetryTime(message) > 0 THEN Ceil(parseRetryTime(message)) + 1
    ELSE Backoff(retries)

NoFetch == [kind |-> "none"]
Sent == [kind |-> "sent"]

\* upload_controller.js:16-37: the locals of submit and the fields of the
\* controller when the first file is taken up.  review is the file whose
\* promise this.reviewResolve and this.reviewReject belong to (0: both null,
\* the modal hidden); promise is the state of each file's review promise; form
\* is what the modal's fields hold; saves are the fetches of confirmReceipt in
\* flight, each with the file whose draft it carries; errors holds the files
\* of the messages pushed, waitTime the wait while it lasts.  answer, requests,
\* outcome, draft and saved are history: the answer that led to the wait, the
\* scan requests sent per file, how each file was counted, the draft that the
\* scan of each file returned, and the files whose draft a save has stored.
SubmitLocals(n) ==
    [ op |-> "submit", files |-> n, i |-> 1, retries |-> 0, uploaded |-> FALSE,
      successCount |-> 0, errorCount |-> 0, errors |-> <<>>,
      scan |-> NoFetch, answer |-> NoFetch, waitTime |-> 0,
      review |-> 0, promise |-> [f \in 1..n |-> "none"], form |-> NilReceipt,
      draft |-> [f \in 1..n |-> NilReceipt], saves |-> <<>>, status |-> "",
      requests |-> [f \in 1..n |-> 0], outcome |-> [f \in 1..n |-> "none"],
      saved |-> {} ]

\* A step of the page: submit goes on at `at` with locals l.
Page(at, l) ==
    /\ pc' = [pc EXCEPT ![Browser] = at]
    /\ loc' = [loc EXCEPT ![Browser] = l]

\* upload_controller.js:12-20: submit with n files selected; with none it
\* shows an error and returns.
Submit(n) ==
    /\ pc[Browser] = "idle"
    /\ IF n = 0
       THEN Page("up_done", [SubmitLocals(0) EXCEPT !.status = "error"])
       ELSE Page("up_while", SubmitLocals(n))
    /\ UNCHANGED <<clock, stores, ret, succeeded>>

\* upload_controller.js:133-161: the loop over the files is over; the summary.
Summary(l) ==
    [l EXCEPT !.status = IF l.errorCount = 0 THEN "success" ELSE "error"]

\* upload_controller.js:31-46: the head of the while loop.  While the file is
\* not uploaded and retries <= maxRetries the next scan request is sent;
\* otherwise the for loop takes up the next file, or submit ends.
While ==
    /\ pc[Browser] = "up_while"
    /\ LET l == loc[Browser]
       IN  IF ~l.uploaded /\ l.retries <= maxRetries
           THEN Page("up_await", [l EXCEPT !.scan = Sent, !.requests[l.i] = @ + 1])
           ELSE IF l.i < l.files
           THEN Page("up_while", [l EXCEPT !.i = l.i + 1, !.retries = 0, !.uploaded = FALSE])
           ELSE Page("up_done", Summary(l))
    /\ UNCHANGED <<clock, stores, ret, succeeded>>

\* upload_controller.js:68-80, 108-120: wait, then retries++ and continue.
Retry(l, message) ==
    Page("up_sleep", [l EXCEPT !.scan = NoFetch,
                               !.waitTime = WaitTime(message, l.retries)])

\* upload_controller.js:102-128: the catch of an attempt.  A message with a
\* rate limit's marker is retried while retries < maxRetries; anything else is
\* counted as an error and ends the while loop.
Catch(l, message) ==
    IF IsRateLimitMessage(message) /\ l.retries < maxRetries
    THEN Retry(l, message)
    ELSE Page("up_while", [l EXCEPT !.scan = NoFetch, !.answer = NoFetch,
                                    !.errorCount = @ + 1,
                                    !.errors = Append(@, l.i),
                                    !.uploaded = TRUE,
                                    !.outcome[l.i] = "error"])

\* upload_controller.js:164-195: reviewReceipt fills the modal with the scanned
\* draft, keeps the promise's resolve and reject, and shows the modal.
Review(l, receipt) ==
    Page("up_review", [l EXCEPT !.scan = NoFetch, !.answer = NoFetch, !.review = l.i,
                                !.promise[l.i] = "pending", !.form = receipt,
                                !.draft[l.i] = receipt])

\* upload_controller.js:48-101: what submit does with the answer a to its fetch.
OnAnswer(l, a) ==
    IF a.kind = "thrown" THEN Catch(l, a.message)
    ELSE IF ~a.ok
    THEN LET errorMessage ==
                 IF ~a.json
                 THEN (IF a.statusText # <<>> THEN a.statusText ELSE <<"Upload", "failed">>)
                 ELSE IF a.error # <<>> THEN a.error ELSE <<"Upload", "failed">>
             isRateLimit ==
                 \/ a.status = 429
                 \/ a.json /\ a.error # <<>> /\ IsRateLimitMessage(a.error)
         IN  IF isRateLimit /\ l.retries < maxRetries
             THEN Retry(l, errorMessage)
             ELSE Catch(l, errorMessage)
    ELSE IF ~a.json THEN Catch(l, <<"Unexpected", "token">>)
    ELSE Review(l, a.receipt)

\* The scan request of the page is waiting for its answer.
ScanRequested == pc[Browser] = "up_await" /\ loc[Browser].scan = Sent

\* The scan handler takes up the request: ProcessReceipt of the file.
HandleScan ==
    /\ ScanRequested
    /\ ret.op # "ProcessReceipt"
    /\ ProcessReceipt_Save(Backend, FileOf(loc[Browser].i), MaxClockUpload)

\* The answer of the scan handler reaches the page.
ScanAnswered ==
    /\ ScanRequested
    /\ pc[Backend] = "idle"
    /\ ret.op = "ProcessReceipt"
    /\ OnAnswer([loc[Browser] EXCEPT !.answer = ScanResponse(ret)], ScanResponse(ret))
    /\ ret' = NoRet
    /\ UNCHANGED <<clock, stores, succeeded>>

\* The request is answered without reaching the service, or fetch fails.
TransportAnswer(a) ==
    /\ ScanRequested
    /\ pc[Backend] = "idle"
    /\ ret.op # "ProcessReceipt"
    /\ OnAnswer([loc[Browser] EXCEPT !.answer = a], a)
    /\ UNCHANGED <<clock, stores, ret, succeeded>>

\* upload_controller.js:72-73, 78-79: the timer of sleep fires; retries++, continue.
SleepDone ==
    /\ pc[Browser] = "up_sleep"
    /\ Page("up_while", [loc[Browser] EXCEPT !.retries = @ + 1, !.answer = NoFetch,
                                             !.waitTime = 0])
    /\ UNCHANGED <<clock, stores, ret, succeeded>>

\* upload_controller.js:94-101: the review promise of the file is settled.
\* Resolved: successCount++, uploaded.  Rejected: "User cancelled review" is
\* thrown to the catch of the attempt.
ReviewSettled ==
    /\ pc[Browser] = "up_review"
    /\ LET l == loc[Browser]
       IN  /\ l.promise[l.i] \in {"resolved", "rejected"}
           /\ IF l.promise[l.i] = "resolved"
              THEN Page("up_while", [l EXCEPT !.successCount = @ + 1, !.uploaded = TRUE,
                                              !.outcome[l.i] = "success"])
              ELSE Catch(l, <<"User", "cancelled", "review">>)
    /\ UNCHANGED <<clock, stores, ret, succeeded>>

\* upload_controller.js:236-247: closeModal hides the modal and forgets the
\* promise's functions.
closeModal(l) == [l EXCEPT !.review = 0]

\* Calling the resolve or reject kept for file f (none when f = 0): a promise
\* is settled once.
Settle(l, f, how) ==
    IF f # 0 /\ l.promise[f] = "pending" THEN [l EXCEPT !.promise[f] = how] ELSE l

\* upload_controller.js:197-214: the user presses Save in the modal;
\* confirmReceipt sends the fields of the form to POST /api/receipts.
ConfirmClick ==
    /\ pc[Browser] # "idle"
    /\ LET l == loc[Browser]
       IN  /\ l.review # 0
           /\ Len(l.saves) < MaxSaves
           /\ Page(pc[Browser], [l EXCEPT !.saves = Append(@, [receipt |-> l.form, of |-> l.review])])
    /\ UNCHANGED <<clock, stores, ret, succeeded>>

\* upload_controller.js:230-234: the user presses Cancel in the modal.
cancelReview ==
    /\ pc[Browser] # "idle"
    /\ LET l == loc[Browser]
       IN  /\ l.review # 0
           /\ Page(pc[Browser], Settle(closeModal(l), l.review, "rejected"))
    /\ UNCHANGED <<clock, stores, ret, succeeded>>

\* The saves in flight without the k-th.
Without(saves, k) == SubSeq(saves, 1, k - 1) \o SubSeq(saves, k + 1, Len(saves))

\* A confirmReceipt that resolves the review however the save went.
SaveFailed_Resolves(l, k) ==
    Settle(closeModal([l EXCEPT !.saves = Without(@, k)]), l.review, "resolved")

\* upload_controller.js:216-218, 224-227: the save was not answered 2xx, or
\* fetch failed: an alert, the modal stays as it is.
SaveFailed(l, k) == [l EXCEPT !.saves = Without(@, k)]

\* upload_controller.js:220-223: the save was answered 2xx: the resolve that
\* the controller holds now is taken, the modal closed, the resolve called.
SaveOK(l, k) ==
    Settle(closeModal([l EXCEPT !.saves = Without(@, k), !.saved = @ \cup {l.saves[k].of}]),
           l.review, "resolved")

\* The k-th save in flight reaches the server, CreateReceipt stamps the draft
\* and saves it, and the answer reaches confirmReceipt.
SaveAnswered(k) ==
    /\ pc[Browser] # "idle"
    /\ k \in 1..Len(loc[Browser].saves)
    /\ clock <= MaxClockUpload
    /\ clock' = clock + 1
    /\ LET l == loc[Browser]
           r == l.saves[k].receipt
       IN  \E o \in SaveReceipt(receipts, [r EXCEPT !.CreatedAt = clock, !.UpdatedAt = clock]) :
             /\ receipts' = o.receipts
             /\ Page(pc[Browser], IF o.err = "" THEN SaveOK(l, k) ELSE SaveFailed(l, k))
    /\ UNCHANGED <<files, reimbursements, ret, succeeded>>

\* The fetch of the k-th save in flight fails before it reaches the server.
SaveLost(k) ==
    /\ pc[Browser] # "idle"
    /\ k \in 1..Len(loc[Browser].saves)
    /\ Page(pc[Browser], SaveFailed(loc[Browser], k))
    /\ UNCHANGED <<clock, stores, ret, succeeded>>

\* The steps of submit and of what answers its fetch: the steps that go on
\* without the user.
UploadLoop ==
    \/ While
    \/ HandleScan
    \/ \E o \in UploadOutcomes : ProcessReceipt_Scan(Backend, o)
    \/ ProcessReceipt_ScanFailed(Backend)
    \/ ProcessReceipt_SaveDB(Backend)
    \/ ProcessReceipt_SaveDBFailed(Backend)
    \/ ScanAnswered
    \/ \E a \in TransportAnswers : TransportAnswer(a)
    \/ SleepDone
    \/ ReviewSettled

NextUpload ==
    \/ \E n \in 0..MaxFiles : Submit(n)
    \/ UploadLoop
    \/ ConfirmClick
    \/ cancelReview
    \/ \E k \in 1..MaxSaves : SaveAnswered(k)
    \/ \E k \in 1..MaxSaves : SaveLost(k)

SpecUpload == Init /\ [][NextUpload]_vars

\* The event loop runs what is ready and every fetch and timer comes to an
\* end: the steps that go on without the user are taken when they can be.
SpecUploadFair == SpecUpload /\ WF_vars(UploadLoop)

\* The review of file f was cancelled and its draft was never committed: no
\* save of it has stored it and none is in flight.
Abandoned(l, f) ==
    /\ l.promise[f] = "rejected"
    /\ f \notin l.saved
    /\ \A k \in 1..Len(l.saves) : l.saves[k].of # f

\* C36: abandoned drafts leak their blob. After the scan of a file succeeded
\* and the user cancelled its review without a save, the blob that
\* ProcessReceipt stored stays in the blob store and no receipt record
\* references it.
C36_AbandonedDraftLeaks ==
    pc[Browser] # "idle" =>
        \A f \in 1..loc[Browser].files :
            Abandoned(loc[Browser], f) =>
                /\ loc[Browser].draft[f].Filename \in DOMAIN files
                /\ \A id \in DOMAIN receipts :
                      receipts[id].Filename # loc[Browser].draft[f].Filename

\* The blob of an abandoned draft stays in the blob store: nothing that the
\* upload page sends removes it.
C36_BlobStays ==
    pc[Browser] # "idle" =>
        \A f \in 1..loc[Browser].files :
            Abandoned(loc[Browser], f) => loc[Browser].draft[f].Filename \in DOMAIN files

\* The review of a file was cancelled without a save, and the record that
\* ProcessReceipt stored for its draft references the blob.
C36_AbandonedButRecorded ==
    /\ pc[Browser] = "up_done"
    /\ \E f \in 1..loc[Browser].files :
          /\ Abandoned(loc[Browser], f)
          /\ loc[Browser].draft[f].ID \in DOMAIN receipts
          /\ receipts[loc[Browser].draft[f].ID].Filename = loc[Browser].draft[f].Filename
          /\ loc[Browser].draft[f].Filename \in DOMAIN files

\* The message that submit reads from the answer a to a scan request.
MessageOf(a) ==
    IF a.kind = "thrown" THEN a.message
    ELSE IF ~a.ok /\ a.json /\ a.error # <<>> THEN a.error
    ELSE IF ~a.ok /\ ~a.json /\ a.statusText # <<>> THEN a.statusText
    ELSE IF ~a.ok THEN <<"Upload", "failed">>
    ELSE <<>>

\* The answer a is a rate limit's: status 429, or a message with one of the markers.
RateLimitAnswer(a) ==
    \/ a.kind = "response" /\ a.status = 429
    \/ a.kind \in {"response", "thrown"} /\ IsRateLimitMessage(MessageOf(a))

\* Submit is at an attempt of file f: at the head of the loop, waiting for the
\* answer to a scan request, or waiting to retry.
Attempting(f) ==
    /\ pc[Browser] \in {"up_while", "up_await", "up_sleep"}
    /\ loc[Browser].i = f

\* The attempts of file f are over: it is counted, or its scan succeeded and
\* its review waits for the user.
AttemptsOver(f) ==
    /\ pc[Browser] \in {"up_while", "up_review", "up_done"}
    /\ f <= loc[Browser].files
    /\ \/ loc[Browser].outcome[f] # "none"
       \/ pc[Browser] = "up_review" /\ loc[Browser].i = f

\* While submit runs: at most 6 scan requests were sent for each file; a wait
\* before a retry follows a rate limit's answer only, is the wait before retry
\* n = retries, n in 0..4, and is min(60, 5 * 2^n) seconds when the message
\* gives no retry time.
RetryBound ==
    pc[Browser] # "idle" =>
        LET l == loc[Browser]
        IN  /\ \A f \in 1..l.files : l.requests[f] <= maxRetries + 1
            /\ l.retries \in 0..maxRetries
            /\ pc[Browser] = "up_sleep" =>
                  /\ RateLimitAnswer(l.answer)
                  /\ l.retries \in 0..4
                  /\ l.requests[l.i] = l.retries + 1
                  /\ parseRetryTime(MessageOf(l.answer)) = 0 =>
                        l.waitTime = Min({60, 5 * 2^l.retries})

\* C37: upload retry bound and termination. For each selected file the upload
\* loop sends at most 6 scan requests (one attempt and maxRetries = 5 retries,
\* retrying only after a rate limit's answer); the loop of a file always comes
\* to an end, also when every request is answered with a rate limit: the file
\* is counted or its review is opened; and when no retry time can be parsed
\* from the message the wait before retry n (n = 0..4) is min(60, 5 * 2^n)
\* seconds.
C37_RetryBoundAndTermination ==
    /\ []RetryBound
    /\ \A f \in 1..MaxFiles : Attempting(f) ~> AttemptsOver(f)

\* Every request for the first file was answered with a rate limit: six
\* requests were sent and the file is counted as an error.
C37_Witness ==
    /\ pc[Browser] # "idle"
    /\ loc[Browser].files >= 1
    /\ loc[Browser].requests[1] = 6
    /\ loc[Browser].retries = maxRetries
    /\ loc[Browser].outcome[1] = "error"
    /\ loc[Browser].errorCount = 1

\* The wait before retry 4, with no retry time in the message: 60 seconds, not 80.
C37_WitnessCapped ==
    /\ pc[Browser] = "up_sleep"
    /\ loc[Browser].retries = 4
    /\ parseRetryTime(MessageOf(loc[Browser].answer)) = 0
    /\ loc[Browser].waitTime = 60

\* A wait of 52 seconds taken from "Please retry in 50.404s." in the answer of
\* the scan handler.
C37_WitnessParsed ==
    /\ pc[Browser] = "up_sleep"
    /\ loc[Browser].waitTime = 52
    /\ loc[Browser].answer.status = 400

\* The files counted in a given way.
Counted(l, how) == {f \in 1..l.files : l.outcome[f] = how}

C38_CountersAddUp ==
    pc[Browser] # "idle" =>
        LET l == loc[Browser]
        IN  /\ l.successCount = Cardinality(Counted(l, "success"))
            /\ l.errorCount = Cardinality(Counted(l, "error"))
            /\ Len(l.errors) = l.errorCount
            /\ \A f \in 1..l.files : f > l.i => l.outcome[f] = "none"
            /\ pc[Browser] = "up_done" => l.successCount + l.errorCount = l.files

\* Submit finished with the second file counted as a success although no save
\* of its draft was ever sent: the user pressed Save and then Cancel on the
\* first file, and the answer to that save resolved the second file's review.
C38_SuccessWithoutSave ==
    /\ pc[Browser] = "up_done"
    /\ loc[Browser].files = 2
    /\ loc[Browser].outcome = <<"error", "success">>
    /\ loc[Browser].saved = {1}
    /\ loc[Browser].promise = <<"rejected", "resolved">>

\* C39: uploads are strictly sequential. A scan request for a file is sent
\* only when every file before it has reached its final outcome: it is counted,
\* as a success with its review promise resolved or as an error with its review
\* promise rejected or never made. A review promise is resolved only in a step
\* in which a save of confirmReceipt succeeds and rejected only by cancelReview;
\* a save that fails leaves the review, the modal and submit where they are.
C39_Sequential ==
    [][pc[Browser] # "idle" /\ pc'[Browser] # "idle" =>
        LET l == loc[Browser]
            m == loc'[Browser]
        IN  /\ \A f \in 1..l.files :
                 m.requests[f] # l.requests[f] =>
                    /\ m.requests[f] = l.requests[f] + 1
                    /\ l.i = f
                    /\ \A g \in 1..(f - 1) :
                          /\ l.outcome[g] # "none"
                          /\ l.outcome[g] = "success" => l.promise[g] = "resolved"
                          /\ l.outcome[g] = "error" => l.promise[g] \in {"rejected", "none"}
                          /\ m.outcome[g] = l.outcome[g]
            /\ \A f \in 1..l.files :
                 m.promise[f] # l.promise[f] =>
                    \/ l.promise[f] = "none" /\ m.promise[f] = "pending" /\ l.i = f
                    \/ /\ l.promise[f] = "pending" /\ m.promise[f] = "resolved"
                       /\ Len(m.saves) = Len(l.saves) - 1
                       /\ receipts' # receipts
                    \/ /\ l.promise[f] = "pending" /\ m.promise[f] = "rejected"
                       /\ m.saves = l.saves
                       /\ l.review = f /\ m.review = 0
            /\ (Len(m.saves) < Len(l.saves) /\ receipts' = receipts) =>
                  /\ m.promise = l.promise
                  /\ m.review = l.review
                  /\ pc'[Browser] = pc[Browser]
                  /\ m.successCount = l.successCount /\ m.errorCount = l.errorCount
                  /\ m.i = l.i]_vars

\* The scan request for the second file was sent after the first was counted
\* as a success, its review resolved by a save.
C39_Witness ==
    /\ pc[Browser] = "up_await"
    /\ loc[Browser].i = 2
    /\ loc[Browser].requests[2] = 1
    /\ loc[Browser].outcome[1] = "success"
    /\ loc[Browser].promise[1] = "resolved"
    /\ 1 \in loc[Browser].saved

\* A save failed and the review of the first file is still open: no request
\* for the second file was sent.
C39_WitnessPending ==
    /\ pc[Browser] = "up_review"
    /\ loc[Browser].files = 2
    /\ loc[Browser].review = 1
    /\ loc[Browser].promise[1] = "pending"
    /\ loc[Browser].saves = <<>>
    /\ loc[Browser].saved = {}
    /\ clock > 3
    /\ loc[Browser].requests[2] = 0

====
